---- MODULE Spec2Model ----
(***************************************************************************)
(* Whiteboard of interview-pad (components/Whiteboard.tsx): the scene, the *)
(* undo/redo history, the pointer-driven gesture machine and the bridge to *)
(* the replicated Y.Map, for the clients of one room.                      *)
(*                                                                         *)
(* Every React event handler is one atomic action: React re-renders        *)
(* between two discrete events, so a handler reads the state left by the   *)
(* previous one.  Scene coordinates are integers; the text metrics, which  *)
(* use the factor 0.6, are compared after multiplying both sides by 10.    *)
(* Rendering-only state (hover_handle, show_zoom, remote_cursors, the      *)
(* canvas) and the refs that are written but never read (start_point_ref,  *)
(* drag_start_pos_ref) are not part of the model.                          *)
(***************************************************************************)
EXTENDS Integers, Sequences, FiniteSets, TLC

(***************************************************************************)
(* Bounds of the exploration.                                              *)
(***************************************************************************)
\* events the single-client exploration handles from its initial state
MaxSteps == 5
\* events (of both clients and of the network) the room exploration handles
MaxRoomSteps == 4
\* events the exploration of two clients that draw, clear and reconnect handles
MaxPairSteps == 6
\* events of a session of select-tool gestures
MaxGestureSteps == 3
\* events of a room whose key also holds texts that are not JSON
MaxBlobSteps == 4
\* mouse and Space-key events of a session with panning
MaxViewSteps == 4
\* pointer events of a session with the pen
MaxDrawSteps == 4
\* wheel, Home, double-click and pan events of a session that moves the view
MaxZoomSteps == 4
\* Events per behaviour of SpecSizes.
MaxSizeSteps == 3
\* Events per behaviour of SpecText.
MaxTextSteps == 7
\* Function applications per behaviour of SpecHit.
MaxHitSteps == 2
\* Events per behaviour of SpecRemote.
MaxRemoteSteps == 4

(***************************************************************************)
(* Program constants.                                                      *)
(***************************************************************************)
\* save_history: "Limit history to 50 states"
HISTORY_LIMIT == 50
\* find_element_at: hit tolerance
HIT_TOLERANCE == 10
\* get_resize_handle_at / inside_selection: padding of the selection box
SELECTION_PAD == 8
\* get_resize_handle_at: hit area of a corner handle
HANDLE_SIZE == 12
\* handle_pointer_move: minimum width and height of the resized bounds
MIN_RESIZE == 10
\* handle_text_submit: font size of a new text
NEW_FONT_SIZE == 24
\* the view scale is kept in thousandths: scale 1 is SCALE_UNIT
SCALE_UNIT == 1000
MIN_SCALE == SCALE_UNIT \div 10
MAX_SCALE == 5 * SCALE_UNIT
\* 1 / zoom_intensity
ZOOM_STEPS == 100
FIT_PADDING == 60

Clients == {"A", "B"}

\* The absent value of a nullable reference (null in the source).
Null == [type |-> "null"]

Pt(px, py) == [x |-> px, y |-> py]

\* Pointer positions offered to the handlers.
PointerPts == {Pt(0, 0), Pt(20, 20), Pt(40, 40)}

COLORS == {"#1a1a1a", "#6366f1"}
WIDTHS == {2, 4, 8}
DrawTools == {"pen", "rect", "ellipse", "line", "arrow"}
Tools == {"select", "eraser", "text"} \cup DrawTools

\* Contents of the text input: sequences of characters.
TextValues == {<<>>, <<" ">>, <<"a">>}

(***************************************************************************)
(* Small arithmetic helpers (Math.min, Math.max, Math.abs).                *)
(***************************************************************************)
Min(a, b) == IF a <= b THEN a ELSE b
Max(a, b) == IF a >= b THEN a ELSE b
Abs(a) == IF a >= 0 THEN a ELSE 0 - a

RECURSIVE SeqMin(_)
SeqMin(s) == IF Len(s) = 1 THEN s[1] ELSE Min(s[1], SeqMin(Tail(s)))
RECURSIVE SeqMax(_)
SeqMax(s) == IF Len(s) = 1 THEN s[1] ELSE Max(s[1], SeqMax(Tail(s)))

\* Array.prototype.map on a sequence
MapSeq(s, F(_)) == [i \in 1..Len(s) |-> F(s[i])]

Ids(els) == {els[i].id : i \in 1..Len(els)}

\* String.prototype.trim on a sequence of characters
RECURSIVE TrimLeft(_)
TrimLeft(s) == IF s # <<>> /\ s[1] = " " THEN TrimLeft(Tail(s)) ELSE s
RECURSIVE TrimRight(_)
TrimRight(s) ==
  IF s # <<>> /\ s[Len(s)] = " " THEN TrimRight(SubSeq(s, 1, Len(s) - 1)) ELSE s
Trim(s) == TrimRight(TrimLeft(s))

(***************************************************************************)
(* Elements.  A stroke has points, a shape has start and end, a text has   *)
(* position, text and fontSize; all have id, type, color and width.        *)
(***************************************************************************)
Stroke(id, points, color, width) ==
  [id |-> id, type |-> "stroke", points |-> points, color |-> color, width |-> width]
Shape(id, type, start, end, color, width) ==
  [id |-> id, type |-> type, start |-> start, end |-> end, color |-> color,
   width |-> width]
Text(id, position, text, color, width, fontSize) ==
  [id |-> id, type |-> "text", position |-> position, text |-> text,
   color |-> color, width |-> width, fontSize |-> fontSize]

Sq(a) == a * a

\* point_to_line_distance(p, a, b) < tol, decided on squared integers:
\* with d = (p-a).(b-a) and L = |b-a|^2, the clamped projection gives
\* dist^2 = |p-a|^2 if d <= 0, |p-b|^2 if d >= L, |p-a|^2 - d^2/L otherwise.
point_to_line_within(p, a, b, tol) ==
  LET len_sq == Sq(b.x - a.x) + Sq(b.y - a.y)
      dot == (p.x - a.x) * (b.x - a.x) + (p.y - a.y) * (b.y - a.y)
      pa2 == Sq(p.x - a.x) + Sq(p.y - a.y)
      pb2 == Sq(p.x - b.x) + Sq(p.y - b.y)
  IN IF len_sq = 0 THEN pa2 < Sq(tol)
     ELSE IF dot <= 0 THEN pa2 < Sq(tol)
     ELSE IF dot >= len_sq THEN pb2 < Sq(tol)
     ELSE (pa2 - Sq(tol)) * len_sq < Sq(dot)

\* The body of find_element_at's loop: is el near point?
element_hit(el, point) ==
  IF el.type = "stroke" THEN
    \E i \in 1..Len(el.points) :
      Sq(el.points[i].x - point.x) + Sq(el.points[i].y - point.y) < Sq(HIT_TOLERANCE)
  ELSE IF el.type \in {"rect", "ellipse"} THEN
    /\ point.x >= Min(el.start.x, el.end.x) - HIT_TOLERANCE
    /\ point.x <= Max(el.start.x, el.end.x) + HIT_TOLERANCE
    /\ point.y >= Min(el.start.y, el.end.y) - HIT_TOLERANCE
    /\ point.y <= Max(el.start.y, el.end.y) + HIT_TOLERANCE
  ELSE IF el.type \in {"line", "arrow"} THEN
    point_to_line_within(point, el.start, el.end, HIT_TOLERANCE)
  ELSE IF el.type = "text" THEN
    \* estimated_width = text.length * (fontSize * 0.6); x-tests are in tenths
    LET box_x == el.position.x - 10
        box_y == el.position.y - el.fontSize - 10 + 6
        box_w10 == 6 * Len(el.text) * el.fontSize + 200
        box_h == el.fontSize + 20
    IN /\ point.x >= box_x
       /\ 10 * point.x <= 10 * box_x + box_w10
       /\ point.y >= box_y
       /\ point.y <= box_y + box_h
  ELSE FALSE

\* find_element_at: the topmost (last) element near point, or Null
find_element_at(els, point) ==
  LET hits == {i \in 1..Len(els) : element_hit(els[i], point)}
  IN IF hits = {} THEN Null
     ELSE els[CHOOSE i \in hits : \A j \in hits : j <= i]

get_element_position(el) ==
  IF el.type = "stroke" THEN (IF Len(el.points) > 0 THEN el.points[1] ELSE Pt(0, 0))
  ELSE IF el.type = "text" THEN el.position
  ELSE el.start

\* move_element that forgets the end point of a shape
move_element_start_only(el, delta) ==
  IF el.type = "stroke" THEN
    [el EXCEPT !.points =
       [i \in 1..Len(el.points) |->
          Pt(el.points[i].x + delta.x, el.points[i].y + delta.y)]]
  ELSE IF el.type = "text" THEN
    [el EXCEPT !.position = Pt(el.position.x + delta.x, el.position.y + delta.y)]
  ELSE [el EXCEPT !.start = Pt(el.start.x + delta.x, el.start.y + delta.y)]

move_element(el, delta) ==
  IF el.type = "stroke" THEN
    [el EXCEPT !.points =
       [i \in 1..Len(el.points) |->
          Pt(el.points[i].x + delta.x, el.points[i].y + delta.y)]]
  ELSE IF el.type = "text" THEN
    [el EXCEPT !.position = Pt(el.position.x + delta.x, el.position.y + delta.y)]
  ELSE
    [el EXCEPT !.start = Pt(el.start.x + delta.x, el.start.y + delta.y),
               !.end = Pt(el.end.x + delta.x, el.end.y + delta.y)]

\* get_element_bounds, in tenths of a scene unit (a text is 0.6 * fontSize
\* wide per character)
get_element_bounds(el) ==
  IF el.type = "stroke" THEN
    LET xs == [i \in 1..Len(el.points) |-> el.points[i].x]
        ys == [i \in 1..Len(el.points) |-> el.points[i].y]
    IN [x |-> 10 * SeqMin(xs), y |-> 10 * SeqMin(ys),
        w |-> 10 * (SeqMax(xs) - SeqMin(xs)), h |-> 10 * (SeqMax(ys) - SeqMin(ys))]
  ELSE IF el.type = "text" THEN
    [x |-> 10 * el.position.x, y |-> 10 * (el.position.y - el.fontSize),
     w |-> 6 * Len(el.text) * el.fontSize, h |-> 10 * el.fontSize]
  ELSE
    [x |-> 10 * Min(el.start.x, el.end.x), y |-> 10 * Min(el.start.y, el.end.y),
     w |-> 10 * Abs(el.end.x - el.start.x), h |-> 10 * Abs(el.end.y - el.start.y)]

\* get_selection_bounds (tenths), or Null
get_selection_bounds(els, sel) ==
  LET idx == {i \in 1..Len(els) : els[i].id \in sel}
      B(i) == get_element_bounds(els[i])
      min_x == CHOOSE v \in {B(i).x : i \in idx} : \A i \in idx : v <= B(i).x
      min_y == CHOOSE v \in {B(i).y : i \in idx} : \A i \in idx : v <= B(i).y
      max_x == CHOOSE v \in {B(i).x + B(i).w : i \in idx} :
                 \A i \in idx : v >= B(i).x + B(i).w
      max_y == CHOOSE v \in {B(i).y + B(i).h : i \in idx} :
                 \A i \in idx : v >= B(i).y + B(i).h
  IN IF sel = {} \/ idx = {} THEN Null
     ELSE [x |-> min_x, y |-> min_y, w |-> max_x - min_x, h |-> max_y - min_y]

\* get_resize_handle_at: the first of nw, ne, sw, se within HANDLE_SIZE, or "none"
get_resize_handle_at(els, sel, point) ==
  LET bounds == get_selection_bounds(els, sel)
      bx == bounds.x - 10 * SELECTION_PAD
      by == bounds.y - 10 * SELECTION_PAD
      bw == bounds.w + 20 * SELECTION_PAD
      bh == bounds.h + 20 * SELECTION_PAD
      Near(hx, hy) == /\ Abs(10 * point.x - hx) < 10 * HANDLE_SIZE
                      /\ Abs(10 * point.y - hy) < 10 * HANDLE_SIZE
  IN IF bounds = Null THEN "none"
     ELSE IF Near(bx, by) THEN "nw"
     ELSE IF Near(bx + bw, by) THEN "ne"
     ELSE IF Near(bx, by + bh) THEN "sw"
     ELSE IF Near(bx + bw, by + bh) THEN "se"
     ELSE "none"

(***************************************************************************)
(* The state of one mounted Whiteboard component (its useState and useRef  *)
(* cells), as a record; the handlers below are functions from it to the    *)
(* record after the handler plus the arrays handed to sync_to_yjs.         *)
(***************************************************************************)
InitWhiteboard ==
  [tool |-> "pen", color |-> "#1a1a1a", stroke_width |-> 4,
   elements |-> <<>>, history |-> <<>>, redo_stack |-> <<>>,
   is_drawing |-> FALSE, text_input |-> Null, text_input_ready |-> FALSE,
   selected_ids |-> {}, is_dragging |-> FALSE, is_resizing |-> FALSE,
   is_box_selecting |-> FALSE, selection_box |-> Null, resize_handle |-> "none",
   drag_offset |-> Pt(0, 0), resize_start |-> Null,
   current_element |-> Null, erased_ids |-> {}, text_timers |-> 0,
   scale |-> SCALE_UNIT, offset |-> Pt(0, 0), is_panning |-> FALSE,
   pan_start |-> Pt(0, 0), space_pressed |-> FALSE,
   container |-> [width |-> 800, height |-> 600], is_syncing |-> FALSE]

\* What a handler returns: the component state, the arrays it passed to
\* sync_to_yjs (in order), and whether it consumed the freshly generated id.
Ret(s, out, used_id) == [st |-> s, out |-> out, used_id |-> used_id]

\* save_history with the limit applied at the wrong end: beyond the limit the
\* newest snapshot is dropped instead of the oldest.
save_history_drops_newest(s) ==
  LET pushed == Append(s.history, s.elements)
  IN [s EXCEPT !.history = IF Len(pushed) > HISTORY_LIMIT
                             THEN SubSeq(pushed, 1, HISTORY_LIMIT) ELSE pushed,
               !.redo_stack = <<>>]

\* history_ref.current.push([...elements]); shift() beyond the limit;
\* redo_stack_ref.current = []
save_history(s) ==
  LET pushed == Append(s.history, s.elements)
  IN [s EXCEPT !.history = IF Len(pushed) > HISTORY_LIMIT THEN Tail(pushed) ELSE pushed,
               !.redo_stack = <<>>]

\* undo that pops the snapshot without restoring it
undo_without_restore(s) ==
  IF Len(s.history) = 0 THEN Ret(s, <<>>, FALSE)
  ELSE Ret([s EXCEPT !.redo_stack = Append(@, s.elements),
                     !.history = SubSeq(@, 1, Len(@) - 1)],
           <<s.elements>>, FALSE)

\* undo that writes the scene to the map again when there is nothing to undo
undo_writes_when_empty(s) ==
  IF Len(s.history) = 0 THEN Ret(s, <<s.elements>>, FALSE)
  ELSE LET previous == s.history[Len(s.history)]
       IN Ret([s EXCEPT !.redo_stack = Append(@, s.elements),
                        !.history = SubSeq(@, 1, Len(@) - 1),
                        !.elements = previous],
              <<previous>>, FALSE)

undo(s) ==
  IF Len(s.history) = 0 THEN Ret(s, <<>>, FALSE)
  ELSE LET previous == s.history[Len(s.history)]
       IN Ret([s EXCEPT !.redo_stack = Append(@, s.elements),
                        !.history = SubSeq(@, 1, Len(@) - 1),
                        !.elements = previous],
              <<previous>>, FALSE)

\* redo that forgets to push the current scene onto the undo stack
redo_without_push(s) ==
  IF Len(s.redo_stack) = 0 THEN Ret(s, <<>>, FALSE)
  ELSE LET next == s.redo_stack[Len(s.redo_stack)]
       IN Ret([s EXCEPT !.redo_stack = SubSeq(@, 1, Len(@) - 1),
                        !.elements = next],
              <<next>>, FALSE)

redo(s) ==
  IF Len(s.redo_stack) = 0 THEN Ret(s, <<>>, FALSE)
  ELSE LET next == s.redo_stack[Len(s.redo_stack)]
       IN Ret([s EXCEPT !.history = Append(@, s.elements),
                        !.redo_stack = SubSeq(@, 1, Len(@) - 1),
                        !.elements = next],
              <<next>>, FALSE)

clear(s) == Ret([save_history(s) EXCEPT !.elements = <<>>], <<<<>>>>, FALSE)

delete_selected(s) ==
  IF s.selected_ids = {} THEN Ret(s, <<>>, FALSE)
  ELSE LET new_elements == SelectSeq(s.elements, LAMBDA el : el.id \notin s.selected_ids)
       IN Ret([save_history(s) EXCEPT !.elements = new_elements, !.selected_ids = {}],
              <<new_elements>>, FALSE)

\* The first element (in scene order) whose id is in sel, or Null:
\* elements.find(e => sel.includes(e.id))
first_selected(els, sel) ==
  LET idx == {i \in 1..Len(els) : els[i].id \in sel}
  IN IF idx = {} THEN Null ELSE els[CHOOSE i \in idx : \A j \in idx : i <= j]

\* drag start: remember the pointer's offset from the reference element
start_drag(s, sel, point) ==
  LET first == first_selected(s.elements, sel)
      pos == get_element_position(first)
  IN IF first = Null THEN [s EXCEPT !.is_dragging = TRUE]
     ELSE [s EXCEPT !.is_dragging = TRUE,
                    !.drag_offset = Pt(point.x - pos.x, point.y - pos.y)]

\* text tool click or double click on a text: open the input and start the
\* 100 ms timer that arms blur-as-commit
open_text_input(s, position, value, editing_id) ==
  [s EXCEPT !.text_input_ready = FALSE,
            !.text_input = [position |-> position, value |-> value,
                            editing_id |-> editing_id],
            !.text_timers = @ + 1]

\* The id of no element (editing_id undefined).
NoId == 0

\* a shift-click that only ever adds the element to the selection
toggle_selected_adds_only(selected_ids, id) == selected_ids \cup {id}

\* shift-click: selected_ids without id if it holds it, with id otherwise
toggle_selected(selected_ids, id) ==
  IF id \in selected_ids THEN selected_ids \ {id} ELSE selected_ids \cup {id}

handle_pointer_down(s, point, shift_held, id) ==
  IF s.tool = "select" THEN
    LET handle == get_resize_handle_at(s.elements, s.selected_ids, point)
        el == find_element_at(s.elements, point)
        selection_bounds == get_selection_bounds(s.elements, s.selected_ids)
        inside_selection ==
          /\ selection_bounds # Null
          /\ 10 * point.x >= selection_bounds.x - 10 * SELECTION_PAD
          /\ 10 * point.x <= selection_bounds.x + selection_bounds.w + 10 * SELECTION_PAD
          /\ 10 * point.y >= selection_bounds.y - 10 * SELECTION_PAD
          /\ 10 * point.y <= selection_bounds.y + selection_bounds.h + 10 * SELECTION_PAD
    IN IF handle # "none" /\ s.selected_ids # {} THEN
         \* resize start: snapshot, capture the selected elements and bounds
         LET original_elements ==
               SelectSeq(s.elements, LAMBDA e : e.id \in s.selected_ids)
         IN Ret([save_history(s) EXCEPT
                   !.is_resizing = TRUE,
                   !.resize_handle = handle,
                   !.resize_start =
                     IF selection_bounds # Null
                     THEN [bounds |-> selection_bounds, point |-> point,
                           elements |-> original_elements]
                     ELSE @],
                <<>>, FALSE)
       ELSE IF el # Null THEN
         IF shift_held THEN
           \* shift-click: toggle membership
           Ret([s EXCEPT !.selected_ids = toggle_selected(@, el.id)], <<>>, FALSE)
         ELSE
           LET current_selection ==
                 IF el.id \in s.selected_ids THEN s.selected_ids ELSE {el.id}
               s1 == [s EXCEPT !.selected_ids = current_selection]
           IN Ret(start_drag(save_history(s1), current_selection, point), <<>>, FALSE)
       ELSE IF inside_selection /\ s.selected_ids # {} THEN
         Ret(start_drag(save_history(s), s.selected_ids, point), <<>>, FALSE)
       ELSE
         Ret([s EXCEPT !.selected_ids = {},
                       !.is_box_selecting = TRUE,
                       !.selection_box = [start |-> point, end |-> point]],
             <<>>, FALSE)
  ELSE
    \* "Deselect when using other tools"
    LET s0 == [s EXCEPT !.selected_ids = {}]
        el == find_element_at(s.elements, point)
    IN IF s.tool = "eraser" THEN
         LET s1 == [s0 EXCEPT !.is_drawing = TRUE, !.erased_ids = {}]
             new_elements == SelectSeq(s.elements, LAMBDA x : x.id # el.id)
         IN IF el # Null
            THEN Ret([save_history(s1) EXCEPT !.erased_ids = {el.id},
                                             !.elements = new_elements],
                     <<new_elements>>, FALSE)
            ELSE Ret(s1, <<>>, FALSE)
       ELSE IF s.tool = "text" THEN
         IF s.text_input # Null THEN Ret(s0, <<>>, FALSE)
         ELSE IF el # Null /\ el.type = "text" THEN
           Ret([open_text_input(s0, el.position, el.text, el.id) EXCEPT
                  !.color = el.color],
               <<>>, FALSE)
         ELSE Ret(open_text_input(s0, point, <<>>, NoId), <<>>, FALSE)
       ELSE
         Ret([s0 EXCEPT
                !.is_drawing = TRUE,
                !.current_element =
                  IF s.tool = "pen"
                  THEN Stroke(id, <<point>>, s.color, s.stroke_width)
                  ELSE Shape(id, s.tool, point, point, s.color, s.stroke_width)],
             <<>>, TRUE)

\* resize_bounds without the minimum size: width and height follow the pointer
\* to zero and below
resize_bounds_no_minimum(old_bounds, handle, point) ==
  LET west == handle \in {"nw", "sw"}
      east == handle \in {"ne", "se"}
      north == handle \in {"nw", "ne"}
      south == handle \in {"sw", "se"}
  IN [x |-> IF west THEN 10 * point.x ELSE old_bounds.x,
      y |-> IF north THEN 10 * point.y ELSE old_bounds.y,
      w |-> IF east THEN 10 * point.x - old_bounds.x
            ELSE IF west THEN old_bounds.w + (old_bounds.x - 10 * point.x)
            ELSE old_bounds.w,
      h |-> IF south THEN 10 * point.y - old_bounds.y
            ELSE IF north THEN old_bounds.h + (old_bounds.y - 10 * point.y)
            ELSE old_bounds.h]

\* The candidate bounds (tenths) of a resize pointer-move: the dragged
\* corner follows the pointer, then width and height are raised to the minimum.
resize_bounds(old_bounds, handle, point) ==
  LET west == handle \in {"nw", "sw"}
      east == handle \in {"ne", "se"}
      north == handle \in {"nw", "ne"}
      south == handle \in {"sw", "se"}
      w0 == IF east THEN 10 * point.x - old_bounds.x
            ELSE IF west THEN old_bounds.w + (old_bounds.x - 10 * point.x)
            ELSE old_bounds.w
      h0 == IF south THEN 10 * point.y - old_bounds.y
            ELSE IF north THEN old_bounds.h + (old_bounds.y - 10 * point.y)
            ELSE old_bounds.h
  IN [x |-> IF west THEN 10 * point.x ELSE old_bounds.x,
      y |-> IF north THEN 10 * point.y ELSE old_bounds.y,
      w |-> IF w0 < 10 * MIN_RESIZE THEN 10 * MIN_RESIZE ELSE w0,
      h |-> IF h0 < 10 * MIN_RESIZE THEN 10 * MIN_RESIZE ELSE h0]

\* new.o + (v - old.o) * new.len / old.len for a coordinate v in scene units and
\* origins and lengths in tenths: the numerator over 10 * old.len
scale_num(v, old_o, old_len, new_o, new_len) ==
  new_o * old_len + (10 * v - old_o) * new_len
scale_coord(v, old_o, old_len, new_o, new_len) ==
  scale_num(v, old_o, old_len, new_o, new_len) \div (10 * old_len)
scale_point(p, ob, nb) ==
  Pt(scale_coord(p.x, ob.x, ob.w, nb.x, nb.w), scale_coord(p.y, ob.y, ob.h, nb.y, nb.h))

\* fontSize * Math.min(scale_x, scale_y), as numerator and denominator
font_scale(ob, nb) ==
  IF nb.w * ob.h <= nb.h * ob.w THEN [num |-> nb.w, den |-> ob.w]
  ELSE [num |-> nb.h, den |-> ob.h]

original_of(originals, id) ==
  LET idx == {i \in 1..Len(originals) : originals[i].id = id}
  IN IF idx = {} THEN Null ELSE originals[CHOOSE i \in idx : \A j \in idx : j <= i]

\* scale_elements_to_bounds that scales about the old origin and forgets that
\* the new bounds have moved
scale_elements_to_bounds_keeps_origin(s, requested) ==
  LET start_data == s.resize_start
      ob == start_data.bounds
      new_bounds == [requested EXCEPT !.x = ob.x, !.y = ob.y]
      ScaleEl(el) ==
        LET original == original_of(start_data.elements, el.id)
        IN IF original = Null THEN el
           ELSE IF original.type = "stroke" THEN
             [el EXCEPT !.points =
                [i \in 1..Len(original.points) |->
                   scale_point(original.points[i], ob, new_bounds)]]
           ELSE IF original.type = "text" THEN
             [el EXCEPT !.position = scale_point(original.position, ob, new_bounds),
                        !.fontSize = (original.fontSize * font_scale(ob, new_bounds).num)
                                       \div font_scale(ob, new_bounds).den]
           ELSE
             [el EXCEPT !.start = scale_point(original.start, ob, new_bounds),
                        !.end = scale_point(original.end, ob, new_bounds)]
  IN IF start_data = Null \/ ob.w = 0 \/ ob.h = 0 THEN s
     ELSE [s EXCEPT !.elements = [i \in 1..Len(s.elements) |-> ScaleEl(s.elements[i])]]

\* scale_elements_to_bounds that scales the elements as they are now instead
\* of the ones captured at the start of the resize
scale_elements_to_bounds_incremental(s, new_bounds) ==
  LET start_data == s.resize_start
      ob == start_data.bounds
      ScaleEl(el) ==
        LET original == el
        IN IF original_of(start_data.elements, el.id) = Null THEN el
           ELSE IF original.type = "stroke" THEN
             [el EXCEPT !.points =
                [i \in 1..Len(original.points) |->
                   scale_point(original.points[i], ob, new_bounds)]]
           ELSE IF original.type = "text" THEN
             [el EXCEPT !.position = scale_point(original.position, ob, new_bounds),
                        !.fontSize = (original.fontSize * font_scale(ob, new_bounds).num)
                                       \div font_scale(ob, new_bounds).den]
           ELSE
             [el EXCEPT !.start = scale_point(original.start, ob, new_bounds),
                        !.end = scale_point(original.end, ob, new_bounds)]
  IN IF start_data = Null \/ ob.w = 0 \/ ob.h = 0 THEN s
     ELSE [s EXCEPT !.elements = [i \in 1..Len(s.elements) |-> ScaleEl(s.elements[i])]]

\* scale_elements_to_bounds without the test for empty bounds: an empty extent
\* is scaled as if it were one unit
scale_elements_to_bounds_no_zero_test(s, new_bounds) ==
  LET start_data == s.resize_start
      ob == [start_data.bounds EXCEPT !.w = Max(@, 10), !.h = Max(@, 10)]
      ScaleEl(el) ==
        LET original == original_of(start_data.elements, el.id)
        IN IF original = Null THEN el
           ELSE IF original.type = "stroke" THEN
             [el EXCEPT !.points =
                [i \in 1..Len(original.points) |->
                   scale_point(original.points[i], ob, new_bounds)]]
           ELSE IF original.type = "text" THEN
             [el EXCEPT !.position = scale_point(original.position, ob, new_bounds),
                        !.fontSize = (original.fontSize * font_scale(ob, new_bounds).num)
                                       \div font_scale(ob, new_bounds).den]
           ELSE
             [el EXCEPT !.start = scale_point(original.start, ob, new_bounds),
                        !.end = scale_point(original.end, ob, new_bounds)]
  IN IF start_data = Null THEN s
     ELSE [s EXCEPT !.elements = [i \in 1..Len(s.elements) |-> ScaleEl(s.elements[i])]]

scale_elements_to_bounds(s, new_bounds) ==
  LET start_data == s.resize_start
      ob == start_data.bounds
      ScaleEl(el) ==
        LET original == original_of(start_data.elements, el.id)
        IN IF original = Null THEN el
           ELSE IF original.type = "stroke" THEN
             [el EXCEPT !.points =
                [i \in 1..Len(original.points) |->
                   scale_point(original.points[i], ob, new_bounds)]]
           ELSE IF original.type = "text" THEN
             [el EXCEPT !.position = scale_point(original.position, ob, new_bounds),
                        !.fontSize = (original.fontSize * font_scale(ob, new_bounds).num)
                                       \div font_scale(ob, new_bounds).den]
           ELSE
             [el EXCEPT !.start = scale_point(original.start, ob, new_bounds),
                        !.end = scale_point(original.end, ob, new_bounds)]
  IN IF start_data = Null \/ ob.w = 0 \/ ob.h = 0 THEN s
     ELSE [s EXCEPT !.elements = [i \in 1..Len(s.elements) |-> ScaleEl(s.elements[i])]]

handle_pointer_move(s, point) ==
  IF s.is_resizing /\ s.resize_handle # "none" /\ s.resize_start # Null THEN
    Ret(scale_elements_to_bounds(
          s, resize_bounds(s.resize_start.bounds, s.resize_handle, point)),
        <<>>, FALSE)
  ELSE IF s.is_box_selecting /\ s.selection_box # Null THEN
    Ret([s EXCEPT !.selection_box.end = point], <<>>, FALSE)
  ELSE IF s.is_dragging /\ s.selected_ids # {} THEN
    LET first == first_selected(s.elements, s.selected_ids)
        pos == get_element_position(first)
        new_pos == Pt(point.x - s.drag_offset.x, point.y - s.drag_offset.y)
        delta == Pt(new_pos.x - pos.x, new_pos.y - pos.y)
    IN IF first = Null THEN Ret(s, <<>>, FALSE)
       ELSE Ret([s EXCEPT !.elements =
                   [i \in 1..Len(s.elements) |->
                      IF s.elements[i].id \in s.selected_ids
                      THEN move_element(s.elements[i], delta)
                      ELSE s.elements[i]]],
                <<>>, FALSE)
  ELSE IF ~s.is_drawing THEN Ret(s, <<>>, FALSE)
  ELSE IF s.tool = "eraser" THEN
    LET el == find_element_at(s.elements, point)
        new_elements == SelectSeq(s.elements, LAMBDA x : x.id # el.id)
    IN IF el # Null /\ el.id \notin s.erased_ids
       THEN Ret([s EXCEPT !.erased_ids = @ \cup {el.id}, !.elements = new_elements],
                <<new_elements>>, FALSE)
       ELSE Ret(s, <<>>, FALSE)
  ELSE IF s.current_element = Null THEN Ret(s, <<>>, FALSE)
  ELSE IF s.current_element.type = "stroke" THEN
    Ret([s EXCEPT !.current_element.points = Append(@, point)], <<>>, FALSE)
  ELSE Ret([s EXCEPT !.current_element.end = point], <<>>, FALSE)

\* a marquee test that takes only the elements lying wholly inside the box
in_selection_box_contained(el, box) ==
  LET bounds == get_element_bounds(el)
  IN /\ bounds.x >= 10 * Min(box.start.x, box.end.x)
     /\ bounds.x + bounds.w <= 10 * Max(box.start.x, box.end.x)
     /\ bounds.y >= 10 * Min(box.start.y, box.end.y)
     /\ bounds.y + bounds.h <= 10 * Max(box.start.y, box.end.y)

\* element bounds against the marquee: "Check if element intersects"
in_selection_box(el, box) ==
  LET bounds == get_element_bounds(el)
      box_min_x == 10 * Min(box.start.x, box.end.x)
      box_max_x == 10 * Max(box.start.x, box.end.x)
      box_min_y == 10 * Min(box.start.y, box.end.y)
      box_max_y == 10 * Max(box.start.y, box.end.y)
  IN ~(\/ bounds.x + bounds.w < box_min_x
       \/ bounds.x > box_max_x
       \/ bounds.y + bounds.h < box_min_y
       \/ bounds.y > box_max_y)

\* handle_pointer_up that commits the drawn element alone (the array built
\* from a stale, empty scene)
handle_pointer_up_commits_alone(s) ==
  IF s.is_drawing /\ s.current_element # Null /\ s.tool # "eraser"
       /\ ~s.is_dragging /\ ~s.is_resizing /\ ~(s.is_box_selecting /\ s.selection_box # Null)
  THEN Ret([save_history([s EXCEPT !.is_drawing = FALSE]) EXCEPT
              !.elements = <<s.current_element>>, !.current_element = Null],
           <<<<s.current_element>>>>, FALSE)
  ELSE IF s.is_dragging \/ s.is_resizing
  THEN Ret([s EXCEPT !.is_dragging = FALSE, !.is_resizing = FALSE,
                     !.resize_handle = "none", !.resize_start = Null],
           <<s.elements>>, FALSE)
  ELSE Ret([s EXCEPT !.is_drawing = FALSE, !.is_box_selecting = FALSE,
                     !.selection_box = Null, !.erased_ids = {}], <<>>, FALSE)

\* handle_pointer_up that ends a drag or a resize without writing the scene
handle_pointer_up_no_drag_sync(s) ==
  IF s.is_dragging \/ s.is_resizing
  THEN Ret([s EXCEPT !.is_dragging = FALSE, !.is_resizing = FALSE,
                     !.resize_handle = "none", !.resize_start = Null],
           <<>>, FALSE)
  ELSE IF s.is_drawing /\ s.current_element # Null /\ s.tool # "eraser"
  THEN Ret([save_history([s EXCEPT !.is_drawing = FALSE]) EXCEPT
              !.elements = Append(s.elements, s.current_element),
              !.current_element = Null],
           <<Append(s.elements, s.current_element)>>, FALSE)
  ELSE Ret([s EXCEPT !.is_drawing = FALSE, !.is_box_selecting = FALSE,
                     !.selection_box = Null, !.erased_ids = {}], <<>>, FALSE)

\* handle_pointer_up that throws away a stroke of a single point
handle_pointer_up_drops_dots(s) ==
  IF s.is_box_selecting /\ s.selection_box # Null THEN
    Ret([s EXCEPT !.is_box_selecting = FALSE,
                  !.selected_ids =
                    {s.elements[i].id : i \in
                       {j \in 1..Len(s.elements) :
                          in_selection_box(s.elements[j], s.selection_box)}},
                  !.selection_box = Null],
        <<>>, FALSE)
  ELSE IF s.is_resizing THEN
    Ret([s EXCEPT !.is_resizing = FALSE, !.resize_handle = "none",
                  !.resize_start = Null],
        <<s.elements>>, FALSE)
  ELSE IF s.is_dragging THEN
    Ret([s EXCEPT !.is_dragging = FALSE], <<s.elements>>, FALSE)
  ELSE IF s.tool = "eraser" THEN
    Ret([s EXCEPT !.is_drawing = FALSE, !.erased_ids = {}], <<>>, FALSE)
  ELSE IF ~s.is_drawing \/ s.current_element = Null THEN Ret(s, <<>>, FALSE)
  ELSE IF s.current_element.type = "stroke" /\ Len(s.current_element.points) < 2 THEN
    Ret([s EXCEPT !.is_drawing = FALSE, !.current_element = Null], <<>>, FALSE)
  ELSE
    LET new_elements == Append(s.elements, s.current_element)
    IN Ret([save_history([s EXCEPT !.is_drawing = FALSE]) EXCEPT
              !.elements = new_elements, !.current_element = Null],
           <<new_elements>>, FALSE)

handle_pointer_up(s) ==
  IF s.is_box_selecting /\ s.selection_box # Null THEN
    Ret([s EXCEPT !.is_box_selecting = FALSE,
                  !.selected_ids =
                    {s.elements[i].id : i \in
                       {j \in 1..Len(s.elements) :
                          in_selection_box(s.elements[j], s.selection_box)}},
                  !.selection_box = Null],
        <<>>, FALSE)
  ELSE IF s.is_resizing THEN
    Ret([s EXCEPT !.is_resizing = FALSE, !.resize_handle = "none",
                  !.resize_start = Null],
        <<s.elements>>, FALSE)
  ELSE IF s.is_dragging THEN
    Ret([s EXCEPT !.is_dragging = FALSE], <<s.elements>>, FALSE)
  ELSE IF s.tool = "eraser" THEN
    Ret([s EXCEPT !.is_drawing = FALSE, !.erased_ids = {}], <<>>, FALSE)
  ELSE IF ~s.is_drawing \/ s.current_element = Null THEN Ret(s, <<>>, FALSE)
  ELSE
    LET new_elements == Append(s.elements, s.current_element)
    IN Ret([save_history([s EXCEPT !.is_drawing = FALSE]) EXCEPT
              !.elements = new_elements, !.current_element = Null],
           <<new_elements>>, FALSE)

\* handle_text_submit that replaces an edited text by a new element: it gets a
\* new id and goes to the end of the scene
handle_text_submit_replaces(s, id) ==
  IF s.text_input = Null THEN Ret(s, <<>>, FALSE)
  ELSE IF Trim(s.text_input.value) = <<>> THEN
    IF s.text_input.editing_id # NoId THEN
      LET new_elements ==
            SelectSeq(s.elements, LAMBDA el : el.id # s.text_input.editing_id)
      IN Ret([save_history(s) EXCEPT !.elements = new_elements, !.text_input = Null],
             <<new_elements>>, FALSE)
    ELSE Ret([s EXCEPT !.text_input = Null], <<>>, FALSE)
  ELSE
    LET el == Text(id, s.text_input.position, s.text_input.value, s.color,
                   s.stroke_width, NEW_FONT_SIZE)
        new_elements ==
          Append(SelectSeq(s.elements, LAMBDA e : e.id # s.text_input.editing_id), el)
    IN Ret([save_history(s) EXCEPT !.elements = new_elements, !.text_input = Null],
           <<new_elements>>, TRUE)

\* handle_text_submit that only closes the input when the text is empty, also
\* when an existing text was being edited
handle_text_submit_keeps_emptied(s, id) ==
  IF s.text_input = Null THEN Ret(s, <<>>, FALSE)
  ELSE IF Trim(s.text_input.value) = <<>> THEN Ret([s EXCEPT !.text_input = Null], <<>>, FALSE)
  ELSE IF s.text_input.editing_id # NoId THEN
    LET new_elements ==
          [i \in 1..Len(s.elements) |->
             IF s.elements[i].id = s.text_input.editing_id /\ s.elements[i].type = "text"
             THEN [s.elements[i] EXCEPT !.text = s.text_input.value, !.color = s.color]
             ELSE s.elements[i]]
    IN Ret([save_history(s) EXCEPT !.elements = new_elements, !.text_input = Null],
           <<new_elements>>, FALSE)
  ELSE
    LET el == Text(id, s.text_input.position, s.text_input.value, s.color,
                   s.stroke_width, NEW_FONT_SIZE)
        new_elements == Append(s.elements, el)
    IN Ret([save_history(s) EXCEPT !.elements = new_elements, !.text_input = Null],
           <<new_elements>>, TRUE)

handle_text_submit(s, id) ==
  IF s.text_input = Null THEN Ret(s, <<>>, FALSE)
  ELSE IF Trim(s.text_input.value) = <<>> THEN
    \* "If empty text and editing, delete the element"
    IF s.text_input.editing_id # NoId THEN
      LET new_elements ==
            SelectSeq(s.elements, LAMBDA el : el.id # s.text_input.editing_id)
      IN Ret([save_history(s) EXCEPT !.elements = new_elements, !.text_input = Null],
             <<new_elements>>, FALSE)
    ELSE Ret([s EXCEPT !.text_input = Null], <<>>, FALSE)
  ELSE IF s.text_input.editing_id # NoId THEN
    LET new_elements ==
          [i \in 1..Len(s.elements) |->
             IF s.elements[i].id = s.text_input.editing_id /\ s.elements[i].type = "text"
             THEN [s.elements[i] EXCEPT !.text = s.text_input.value, !.color = s.color]
             ELSE s.elements[i]]
    IN Ret([save_history(s) EXCEPT !.elements = new_elements, !.text_input = Null],
           <<new_elements>>, FALSE)
  ELSE
    LET el == Text(id, s.text_input.position, s.text_input.value, s.color,
                   s.stroke_width, NEW_FONT_SIZE)
        new_elements == Append(s.elements, el)
    IN Ret([save_history(s) EXCEPT !.elements = new_elements, !.text_input = Null],
           <<new_elements>>, TRUE)

\* a window keydown handler whose shortcuts do not look at the text input
handle_keydown_while_editing(s, key) ==
  IF key = "redo" THEN redo(s)
  ELSE IF key = "undo" THEN undo(s)
  ELSE IF key = "delete" /\ s.selected_ids # {} THEN delete_selected(s)
  ELSE IF key = "escape" THEN Ret([s EXCEPT !.selected_ids = {}], <<>>, FALSE)
  ELSE IF key = "select_all"
    THEN Ret([s EXCEPT !.selected_ids = Ids(s.elements)], <<>>, FALSE)
  ELSE Ret(s, <<>>, FALSE)

\* window keydown handler, by the shortcut pressed
handle_keydown(s, key) ==
  IF key = "redo" /\ s.text_input = Null THEN redo(s)
  ELSE IF key = "undo" /\ s.text_input = Null THEN undo(s)
  ELSE IF key = "delete" /\ s.selected_ids # {} /\ s.text_input = Null
    THEN delete_selected(s)
  ELSE IF key = "escape" THEN Ret([s EXCEPT !.selected_ids = {}], <<>>, FALSE)
  ELSE IF key = "select_all" /\ s.text_input = Null
    THEN Ret([s EXCEPT !.selected_ids = Ids(s.elements)], <<>>, FALSE)
  ELSE Ret(s, <<>>, FALSE)

Keys == {"redo", "undo", "delete", "escape", "select_all"}

\* a text input whose Escape commits the text like Enter
text_input_keydown_escape_submits(s, key, id) ==
  LET r == handle_text_submit(s, id)
  IN IF key = "Enter" THEN r
     ELSE Ret(handle_keydown(r.st, "escape").st, r.out, r.used_id)

\* text input onKeyDown: Enter commits; Escape closes the input, and the
\* event then reaches the window handler
text_input_keydown(s, key, id) ==
  IF key = "Enter" THEN handle_text_submit(s, id)
  ELSE handle_keydown([s EXCEPT !.text_input = Null], "escape")

\* text input onBlur
text_input_blur(s, id) ==
  IF s.text_input_ready THEN handle_text_submit(s, id) ELSE Ret(s, <<>>, FALSE)

(***************************************************************************)
(* The blob under the key 'elements': JSON.stringify of the element array. *)
(* A text that is no JSON (written by something other than a whiteboard)   *)
(* is Garbage; JSON.parse throws on it.                                    *)
(***************************************************************************)
JSON_stringify(els) == [json |-> "array", value |-> els]
Garbage == [json |-> "malformed"]
JSON_parses(blob) == blob.json = "array"
JSON_parse(blob) == blob.value

(***************************************************************************)
(* The replicated Y.Map, one replica per client.  A replica is the set of  *)
(* items (writes of the key) it has integrated; an item names its writer,  *)
(* the writer's clock and the item it overwrote at the writer (origin).    *)
(* Yjs orders the items of a key as the depth-first order of the origin    *)
(* tree, siblings by ascending client id; the value is the last item.      *)
(***************************************************************************)
NoItem == [client |-> "none", clock |-> 0]
ItemId(it) == [client |-> it.client, clock |-> it.clock]

VARIABLES
  wb,        \* wb[c]: the state of client c's Whiteboard component
  synced,    \* synced[c]: the synced prop of client c (provider 'sync' event)
  doc,       \* doc[c]: the items client c's replica of the map has integrated
  clientID,  \* clientID[c]: the Yjs client id of c's document
  next_id,   \* the next fresh element id (Date.now() plus random suffix)
  steps,     \* events handled so far (-1: a session that is not counted)
  watch      \* history of client A's session the properties refer to

vars == <<wb, synced, doc, clientID, next_id, steps, watch>>

AllItems == UNION {doc[c] : c \in Clients}

\* The last item of the key in a set of integrated items, from origin o on.
RECURSIVE LastItem(_, _)
LastItem(o, known) ==
  LET children == {it \in known : it.origin = o}
      top == CHOOSE it \in children :
               \A other \in children : clientID[other.client] <= clientID[it.client]
  IN IF children = {} THEN o ELSE LastItem(ItemId(top), known)

Undefined == [json |-> "undefined"]

\* ymap.get('elements') on a replica
ymap_get(known) ==
  LET last == LastItem(NoItem, known)
  IN IF last = NoItem THEN Undefined
     ELSE (CHOOSE it \in known : ItemId(it) = last).val

\* ymap.set('elements', blob) by client c: a new item after the current last
ymap_set(c, known, blob) ==
  known \cup {[client |-> c,
               clock |-> Cardinality({it \in known : it.client = c}) + 1,
               origin |-> LastItem(NoItem, known),
               val |-> blob]}

\* an observer that leaves the scene alone while a gesture is in progress
sync_from_yjs_unless_busy(s, data) ==
  IF ~s.is_syncing /\ data # Undefined /\ JSON_parses(data)
       /\ ~s.is_drawing /\ ~s.is_dragging /\ ~s.is_resizing
  THEN [s EXCEPT !.elements = JSON_parse(data)]
  ELSE s

\* an observer that also abandons the gesture in progress and the selection
sync_from_yjs_resets_gesture(s, data) ==
  IF s.is_syncing THEN s
  ELSE IF data # Undefined /\ JSON_parses(data)
    THEN [s EXCEPT !.elements = JSON_parse(data), !.selected_ids = {},
                   !.is_drawing = FALSE, !.current_element = Null,
                   !.is_dragging = FALSE, !.is_resizing = FALSE]
  ELSE s

\* The observer: replace the scene by the parsed blob.  is_syncing_ref is true
\* only inside the client's own ymap.set, whose notification it skips.
sync_from_yjs(s, data) ==
  IF s.is_syncing THEN s
  ELSE IF data # Undefined /\ JSON_parses(data)
    THEN [s EXCEPT !.elements = JSON_parse(data)]
  ELSE s

\* a sync_to_yjs that does not reset is_syncing_ref after its write
sync_to_yjs_flag_stays_set(s, blob) ==
  sync_from_yjs([s EXCEPT !.is_syncing = TRUE], blob)

\* The component's side of sync_to_yjs: is_syncing_ref is set, ymap.set
\* notifies the client's own observer at once, and the flag is reset.
sync_to_yjs_flag(s, blob) ==
  [sync_from_yjs([s EXCEPT !.is_syncing = TRUE], blob) EXCEPT !.is_syncing = FALSE]

\* sync_to_yjs(new_elements) on client c's replica
sync_to_yjs(c, known, new_elements) ==
  IF synced[c] THEN ymap_set(c, known, JSON_stringify(new_elements)) ELSE known

(***************************************************************************)
(* What the properties need to remember of client A's session.             *)
(*   base, phase, n, k: the scene before the first snapshot-guarded action,*)
(*     and how many snapshots were pushed (n) and then undone (k) with     *)
(*     nothing else in between ("void" once something else happened).      *)
(*   ur, undo_pre: the scene and stacks before an undo that a redo         *)
(*     followed at once.                                                   *)
(*   erase, erase_pre: the scene and undo stack when the running or just   *)
(*     finished eraser gesture started.                                    *)
(*   mid: undo or redo was pressed during the gesture that is running.     *)
(*   first_writer: the client whose ymap.set came first in the room.       *)
(***************************************************************************)
InitWatch(scene) ==
  [base |-> scene, phase |-> "acting", n |-> 0, k |-> 0,
   ur |-> "none", undo_pre |-> Null,
   erase |-> "none", erase_pre |-> Null,
   mid |-> FALSE,
   first_writer |-> "none"]

Idle(s) ==
  /\ ~s.is_drawing /\ ~s.is_dragging /\ ~s.is_resizing /\ ~s.is_box_selecting
  /\ s.text_input = Null /\ s.current_element = Null

Stacks(s) == [elements |-> s.elements, history |-> s.history, redo_stack |-> s.redo_stack]

\* kind: the handler that ran ("undo", "redo", "down", "move", "up", "other");
\* s: the component before it; t: the component after it.
WatchNext(w, kind, s, t) ==
  LET did_undo == kind = "undo" /\ Len(s.history) > 0
      did_redo == kind = "redo" /\ Len(s.redo_stack) > 0
      erasing == s.tool = "eraser" /\ kind \in {"down", "move", "up"}
      pushed == kind \notin {"undo", "redo"} /\ t.history # s.history
      void == [w EXCEPT !.phase = "void", !.n = 0, !.k = 0]
      \* n pushes, then k presses of undo
      w1 == IF w.phase = "void" THEN w
            ELSE IF w.phase = "acting" THEN
              IF kind = "undo" THEN
                (IF w.n = 0 THEN w
                 ELSE IF Idle(s) THEN [w EXCEPT !.phase = "undoing", !.k = 1]
                 ELSE void)
              ELSE IF kind = "redo" \/ erasing THEN void
              ELSE IF pushed
                THEN [w EXCEPT !.n = IF @ > HISTORY_LIMIT THEN @ ELSE @ + 1]
              ELSE w
            ELSE IF kind = "undo" THEN [w EXCEPT !.k = IF @ < w.n THEN @ + 1 ELSE @]
            ELSE void
      \* an undo, and the redo that follows it at once
      w2 == IF did_undo THEN [w1 EXCEPT !.ur = "undone", !.undo_pre = Stacks(s)]
            ELSE IF did_redo /\ w.ur = "undone" THEN [w1 EXCEPT !.ur = "redone"]
            ELSE [w1 EXCEPT !.ur = "none", !.undo_pre = Null]
      \* an eraser gesture from pointer-down to pointer-up, and the undo that
      \* follows a gesture that removed something
      w3 == IF kind = "down" /\ s.tool = "eraser" /\ Idle(s)
              THEN [w2 EXCEPT !.erase = "active",
                              !.erase_pre = [elements |-> s.elements,
                                             history |-> s.history]]
            ELSE IF w.erase = "active" /\ kind = "move" /\ s.tool = "eraser" /\ s.is_drawing
              THEN w2
            ELSE IF w.erase = "active" /\ kind = "up" /\ s.tool = "eraser" /\ s.is_drawing
              THEN [w2 EXCEPT !.erase = "done"]
            ELSE IF w.erase = "done" /\ did_undo /\ s.elements # w.erase_pre.elements
              THEN [w2 EXCEPT !.erase = "undone"]
            ELSE [w2 EXCEPT !.erase = "none", !.erase_pre = Null]
      \* an undo or redo in the middle of a gesture that is still running
      w4 == [w3 EXCEPT !.mid = ~Idle(t) /\ (@ \/ ((did_undo \/ did_redo) /\ ~Idle(s)))]
  IN w4

\* A handler's result r becomes client c's state; the array it handed to
\* sync_to_yjs, if any, is written.
Commit(c, r) ==
  /\ wb' = [wb EXCEPT ![c] = IF r.out # <<>> /\ synced[c]
                              THEN sync_to_yjs_flag(r.st, JSON_stringify(r.out[1]))
                              ELSE r.st]
  /\ next_id' = IF r.used_id THEN next_id + 1 ELSE next_id
  /\ doc' = [doc EXCEPT ![c] = IF r.out # <<>> THEN sync_to_yjs(c, @, r.out[1]) ELSE @]
  /\ UNCHANGED <<synced, clientID>>

\* Commit, with the observation of client A's undo and redo brought up to date
Apply(c, r, kind) ==
  /\ Commit(c, r)
  /\ watch' = LET w == IF c = "A" THEN WatchNext(watch, kind, wb[c], r.st) ELSE watch
               IN IF r.out # <<>> /\ synced[c] /\ w.first_writer = "none"
                    THEN [w EXCEPT !.first_writer = c] ELSE w

\* One more event, within the budget of the exploration.
Tick(budget) == steps >= 0 /\ steps < budget /\ steps' = steps + 1

\* Tools the toolbar clicks of the exploration select (ellipse, line and arrow
\* take the same paths through the handlers as rect).
ToolsOffered == {"select", "pen", "rect", "eraser", "text"}

SetTool(c, budget) ==
  /\ Tick(budget)
  /\ \E t \in ToolsOffered :
       t # wb[c].tool /\ Apply(c, Ret([wb[c] EXCEPT !.tool = t], <<>>, FALSE), "other")

PointerDown(c, budget) ==
  /\ Tick(budget)
  /\ \E point \in PointerPts, shift_held \in BOOLEAN :
       Apply(c, handle_pointer_down(wb[c], point, shift_held, next_id), "down")

\* every scaled coordinate of a resize move is a whole scene unit
resize_exact(s, point) ==
  LET ob == s.resize_start.bounds
      nb == resize_bounds(ob, s.resize_handle, point)
      fs == font_scale(ob, nb)
      ExactPt(p) ==
        /\ scale_num(p.x, ob.x, ob.w, nb.x, nb.w) % (10 * ob.w) = 0
        /\ scale_num(p.y, ob.y, ob.h, nb.y, nb.h) % (10 * ob.h) = 0
      Exact(el) ==
        IF el.type = "stroke" THEN \A i \in 1..Len(el.points) : ExactPt(el.points[i])
        ELSE IF el.type = "text"
          THEN ExactPt(el.position) /\ (el.fontSize * fs.num) % fs.den = 0
        ELSE ExactPt(el.start) /\ ExactPt(el.end)
  IN s.is_resizing /\ s.resize_handle # "none" /\ s.resize_start # Null
       /\ ob.w # 0 /\ ob.h # 0
     => \A i \in 1..Len(s.resize_start.elements) : Exact(s.resize_start.elements[i])

PointerMove(c, budget) ==
  /\ Tick(budget)
  /\ \E point \in PointerPts :
       /\ resize_exact(wb[c], point)
       /\ Apply(c, handle_pointer_move(wb[c], point), "move")

PointerUp(c, budget) == Tick(budget) /\ Apply(c, handle_pointer_up(wb[c]), "up")

KeyKind(s, key) ==
  IF key \in {"undo", "redo"} /\ s.text_input = Null THEN key ELSE "other"

KeyDown(c, budget) ==
  /\ Tick(budget)
  /\ \E key \in Keys : Apply(c, handle_keydown(wb[c], key), KeyKind(wb[c], key))

DoUndo(c) == Apply(c, undo(wb[c]), "undo")
DoRedo(c) == Apply(c, redo(wb[c]), "redo")
DoClear(c) == Apply(c, clear(wb[c]), "other")

\* toolbar buttons
UndoButton(c, budget) == Tick(budget) /\ DoUndo(c)
ClearButton(c, budget) == Tick(budget) /\ DoClear(c)

TextChange(c, budget) ==
  /\ Tick(budget)
  /\ wb[c].text_input # Null
  /\ \E v \in TextValues :
       /\ v # wb[c].text_input.value
       /\ Apply(c, Ret([wb[c] EXCEPT !.text_input.value = v], <<>>, FALSE), "other")

TextKeyDown(c, budget) ==
  /\ Tick(budget)
  /\ wb[c].text_input # Null
  /\ \E key \in {"Enter", "Escape"} :
       Apply(c, text_input_keydown(wb[c], key, next_id), "other")

TextBlur(c, budget) ==
  /\ Tick(budget)
  /\ wb[c].text_input # Null
  /\ Apply(c, text_input_blur(wb[c], next_id), "other")

\* setTimeout(() => { text_input_ready_ref.current = true }, 100)
TextTimer(c, budget) ==
  /\ Tick(budget)
  /\ wb[c].text_timers > 0
  /\ Apply(c, Ret([wb[c] EXCEPT !.text_input_ready = TRUE, !.text_timers = @ - 1],
                  <<>>, FALSE), "other")

\* An item written elsewhere reaches client c's replica (after the items it
\* depends on); the observer then reloads the scene.
Deliver(c, budget) ==
  /\ Tick(budget)
  /\ synced[c]
  /\ \E it \in AllItems \ doc[c] :
       /\ it.origin = NoItem \/ \E o \in doc[c] : ItemId(o) = it.origin
       /\ \A o \in AllItems : o.client = it.client /\ o.clock < it.clock => o \in doc[c]
       /\ doc' = [doc EXCEPT ![c] = @ \cup {it}]
       /\ wb' = [wb EXCEPT ![c] = sync_from_yjs(@, ymap_get(doc'[c]))]
  /\ UNCHANGED <<synced, clientID, next_id, watch>>

\* The provider loses its connection: synced becomes false, the observer is
\* removed and sync_to_yjs stops writing.
Disconnect(c, budget) ==
  /\ Tick(budget)
  /\ synced[c]
  /\ synced' = [synced EXCEPT ![c] = FALSE]
  /\ UNCHANGED <<wb, doc, clientID, next_id, watch>>

\* The provider has exchanged all updates and reports 'sync': the effect runs
\* sync_from_yjs once and observes the map again.
Connect(c, budget) ==
  /\ Tick(budget)
  /\ ~synced[c]
  /\ synced' = [synced EXCEPT ![c] = TRUE]
  /\ doc' = [doc EXCEPT ![c] = AllItems]
  /\ wb' = [wb EXCEPT ![c] = sync_from_yjs(@, ymap_get(AllItems))]
  /\ UNCHANGED <<clientID, next_id, watch>>

(***************************************************************************)
(* Initial states: the component has mounted on a synced room and loaded   *)
(* the scene stored under the key, if any.                                 *)
(***************************************************************************)
RectR == Shape(101, "rect", Pt(20, 20), Pt(40, 40), "#1a1a1a", 4)
StrokeS == Stroke(102, <<Pt(20, 20), Pt(40, 40)>>, "#6366f1", 2)
TextT == Text(103, Pt(20, 20), <<"b">>, "#1a1a1a", 4, NEW_FONT_SIZE)

\* Scenes a room may hold when the whiteboard is opened.
InitScenes == {<<>>, <<RectR, StrokeS, TextT>>}

\* The item a past session (or useFileSystem's default '[]') left in the map.
InitItem(scene) ==
  [client |-> "init", clock |-> 1, origin |-> NoItem, val |-> JSON_stringify(scene)]

InitRoom(scene, with_key) ==
  /\ wb = [c \in Clients |-> [InitWhiteboard EXCEPT !.elements = scene]]
  /\ synced = [c \in Clients |-> TRUE]
  /\ doc = [c \in Clients |-> IF with_key THEN {InitItem(scene)} ELSE {}]
  /\ next_id = 1
  /\ steps = 0
  /\ watch = InitWatch(scene)

(***************************************************************************)
(* One client: sessions of up to MaxSteps events with every handler, and   *)
(* sessions of any length made of clear, undo and redo only (the ones that *)
(* fill the undo stack to its limit).  The long sessions run while the     *)
(* provider is disconnected, so that the replica does not grow with them.  *)
(***************************************************************************)
InitSolo ==
  \E scene \in InitScenes, long \in BOOLEAN :
    /\ wb = [c \in Clients |-> [InitWhiteboard EXCEPT !.elements = scene]]
    /\ synced = [c \in Clients |-> ~long]
    /\ doc = [c \in Clients |-> {InitItem(scene)}]
    /\ next_id = 1
    /\ watch = InitWatch(scene)
    /\ clientID = [c \in Clients \cup {"init"} |-> IF c = "A" THEN 1 ELSE 0]
    /\ steps = IF long THEN 0 - 1 ELSE 0

LongClear == steps < 0 /\ DoClear("A") /\ UNCHANGED steps
LongUndo == steps < 0 /\ DoUndo("A") /\ UNCHANGED steps
LongRedo == steps < 0 /\ DoRedo("A") /\ UNCHANGED steps

NextSolo ==
  \/ \E c \in {"A"} :
       \/ SetTool(c, MaxSteps)
       \/ PointerDown(c, MaxSteps)
       \/ PointerMove(c, MaxSteps)
       \/ PointerUp(c, MaxSteps)
       \/ KeyDown(c, MaxSteps)
       \/ UndoButton(c, MaxSteps)
       \/ ClearButton(c, MaxSteps)
       \/ TextChange(c, MaxSteps)
       \/ TextKeyDown(c, MaxSteps)
       \/ TextBlur(c, MaxSteps)
       \/ TextTimer(c, MaxSteps)
  \/ LongClear
  \/ LongUndo
  \/ LongRedo

SpecSolo == InitSolo /\ [][NextSolo]_vars

(***************************************************************************)
(* A room of two clients.  Client A starts with any tool and uses every    *)
(* handler; client B draws with the pen and clears; items travel in any    *)
(* order that respects causality.                                          *)
(***************************************************************************)
InitRoomTool(scene, t) ==
  [c \in Clients |-> [InitWhiteboard EXCEPT !.elements = scene,
                                            !.tool = IF c = "A" THEN t ELSE @]]

Init ==
  \E scene \in InitScenes, t \in ToolsOffered :
    /\ wb = InitRoomTool(scene, t)
    /\ synced = [c \in Clients |-> TRUE]
    /\ doc = [c \in Clients |-> {InitItem(scene)}]
    /\ next_id = 1
    /\ steps = 0
    /\ watch = InitWatch(scene)
    /\ clientID \in {[c \in Clients \cup {"init"} |->
                        IF c = "init" THEN 0 ELSE IF c = hi THEN 2 ELSE 1] : hi \in Clients}

Next ==
  \/ \E c \in Clients :
       \/ PointerDown(c, MaxRoomSteps)
       \/ PointerUp(c, MaxRoomSteps)
       \/ ClearButton(c, MaxRoomSteps)
       \/ Deliver(c, MaxRoomSteps)
  \/ \E c \in {"A"} :
       \/ PointerMove(c, MaxRoomSteps)
       \/ KeyDown(c, MaxRoomSteps)
       \/ UndoButton(c, MaxRoomSteps)
       \/ TextChange(c, MaxRoomSteps)
       \/ TextKeyDown(c, MaxRoomSteps)
       \/ TextBlur(c, MaxRoomSteps)
       \/ TextTimer(c, MaxRoomSteps)

Spec == Init /\ [][Next]_vars

(***************************************************************************)
(* Two clients that draw with the pen, clear, lose the connection and      *)
(* reconnect, on an empty whiteboard whose key holds '[]' or has not been   *)
(* written yet (create_file does not write it).                            *)
(***************************************************************************)
InitPair ==
  /\ \E with_key \in BOOLEAN : InitRoom(<<>>, with_key)
  /\ clientID \in {[c \in Clients \cup {"init"} |->
                      IF c = "init" THEN 0 ELSE IF c = hi THEN 2 ELSE 1] : hi \in Clients}

NextPair ==
  \E c \in Clients :
    \/ PointerDown(c, MaxPairSteps)
    \/ PointerUp(c, MaxPairSteps)
    \/ ClearButton(c, MaxPairSteps)
    \/ Deliver(c, MaxPairSteps)
    \/ Disconnect(c, MaxPairSteps)
    \/ Connect(c, MaxPairSteps)

SpecPair == InitPair /\ [][NextPair]_vars

(***************************************************************************)
(* Undo and redo (client A, no remote updates).                            *)
(***************************************************************************)
\* C1: starting with an empty undo stack, after N (1 <= N <= 50) local
\* snapshot-guarded actions and then N presses of undo with nothing in
\* between, the scene is the one before the first action.
UndoRestoresOriginal ==
  watch.phase = "undoing" /\ watch.k = watch.n /\ watch.n <= HISTORY_LIMIT
    => wb["A"].elements = watch.base

\* fifty actions on a scene of three elements, all undone
UndoRestoresOriginalWitness ==
  /\ watch.phase = "undoing" /\ watch.k = watch.n /\ watch.n = HISTORY_LIMIT
  /\ watch.base # <<>>
  /\ wb["A"].elements = watch.base

\* C2: an undo on a non-empty undo stack immediately followed by a redo
\* leaves the scene, the undo stack and the redo stack as they were before
\* the undo.
UndoRedoRoundTrip ==
  watch.ur = "redone" => Stacks(wb["A"]) = watch.undo_pre

UndoRedoRoundTripWitness ==
  /\ watch.ur = "redone"
  /\ wb["A"].history # <<>>
  /\ wb["A"].elements # wb["A"].history[Len(wb["A"].history)]

\* the step is an undo or a redo (button or shortcut)
UndoOrRedoStep == DoUndo("A") \/ DoRedo("A")

\* C3: once an undo has been done, every local action that starts afterwards
\* and changes the scene (an erase that removes an element included) leaves
\* the redo stack empty.  (The moves of a gesture during which undo or redo
\* was pressed are not "afterwards".)
RedoClearedByLocalChange ==
  [][(/\ wb'["A"].elements # wb["A"].elements
      /\ ~UndoOrRedoStep
      /\ ~watch.mid)
     => wb'["A"].redo_stack = <<>>]_vars

\* C4: an eraser gesture that removed k >= 1 elements, wherever it started,
\* removed each of them once, pushed exactly one snapshot (the scene before
\* the gesture), and one undo after it brings all k back.
EraseGestureOneSnapshot ==
  LET pre == watch.erase_pre
      now == wb["A"]
  IN /\ watch.erase = "done" /\ now.elements # pre.elements
          => /\ SelectSeq(pre.elements, LAMBDA el : el.id \in Ids(now.elements))
                  = now.elements
             /\ now.history # <<>>
             /\ now.history[Len(now.history)] = pre.elements
             /\ Len(now.history) = Min(Len(pre.history) + 1, HISTORY_LIMIT)
     /\ watch.erase = "undone" => now.elements = pre.elements

\* C5: neither stack ever holds more than 50 entries, and a push (by clear,
\* or by any handler other than undo and redo that changes the undo stack)
\* onto an undo stack of 50 entries discards the oldest one.
HistoryBounded ==
  /\ [](\A c \in Clients : /\ Len(wb[c].history) <= HISTORY_LIMIT
                           /\ Len(wb[c].redo_stack) <= HISTORY_LIMIT)
  /\ [][\A c \in Clients :
          (/\ Len(wb[c].history) = HISTORY_LIMIT
           /\ DoClear(c) \/ (wb'[c].history # wb[c].history /\ ~UndoOrRedoStep))
          => wb'[c].history = Append(Tail(wb[c].history), wb[c].elements)]_vars

\* a push onto a full undo stack has happened and dropped the initial scene
HistoryBoundedWitness ==
  /\ watch.n > HISTORY_LIMIT
  /\ Len(wb["A"].history) = HISTORY_LIMIT
  /\ watch.base # <<>> /\ wb["A"].history[1] # watch.base

(***************************************************************************)
(* The room: last-writer-wins on the one key.                              *)
(***************************************************************************)
ItemsOf(c) == {it \in AllItems : it.client = c}

\* every client is synced, no gesture is in progress and every written item
\* has been delivered everywhere
Settled ==
  \A c \in Clients : synced[c] /\ Idle(wb[c]) /\ doc[c] = AllItems

IsStrokes(els) == \A i \in 1..Len(els) : els[i].type = "stroke"

\* A and B each drew one stroke and wrote once, A's write being made first:
\* A's array is its stroke, B's array ends with B's stroke, and nothing else
\* was ever drawn.
TwoStrokesWritten ==
  /\ watch.first_writer = "A"
  /\ next_id = 3
  /\ \A c \in Clients :
       /\ Cardinality(ItemsOf(c)) = 1
       /\ \A it \in ItemsOf(c) : JSON_parses(it.val) /\ IsStrokes(JSON_parse(it.val))
  /\ \A a \in ItemsOf("A"), b \in ItemsOf("B") :
       LET pa == JSON_parse(a.val)
           pb == JSON_parse(b.val)
       IN /\ Len(pa) = 1
          /\ Len(pb) >= 1
          /\ pb[Len(pb)].id # pa[1].id
          /\ pb \in {<<pb[Len(pb)]>>, <<pa[1], pb[Len(pb)]>>}

\* C6 as stated: once A's and B's writes have settled, every scene is B's
\* array and A's stroke is not in it.
OnlyLastWriteSurvives ==
  TwoStrokesWritten /\ Settled
    => \A a \in ItemsOf("A"), b \in ItemsOf("B"), c \in Clients :
         /\ wb[c].elements = JSON_parse(b.val)
         /\ JSON_parse(a.val)[1].id \notin Ids(wb[c].elements)

\* C6, amended: once A's and B's writes have settled, every scene is one
\* written array: B's, holding A's stroke followed by B's, when A's write had
\* reached B before B committed; otherwise the array of the client with the
\* larger Yjs client id, which holds that client's stroke only.
OneWriteSurvives ==
  TwoStrokesWritten /\ Settled
    => \A a \in ItemsOf("A"), b \in ItemsOf("B"), c \in Clients :
         LET sA == JSON_parse(a.val)[1]
             pb == JSON_parse(b.val)
             sB == pb[Len(pb)]
         IN wb[c].elements =
              IF b.origin = ItemId(a) THEN <<sA, sB>>
              ELSE IF clientID["B"] > clientID["A"] THEN <<sB>>
              ELSE <<sA>>

\* A's write reached B while B was drawing: both strokes are in every scene
OneWriteSurvivesWitness ==
  /\ TwoStrokesWritten /\ Settled
  /\ \A c \in Clients : Len(wb[c].elements) = 2
  /\ \E a \in ItemsOf("A"), b \in ItemsOf("B") : b.origin = ItemId(a)

\* C7: when a synced client's observer is notified of an item written by
\* another client and the blob it reads parses, its scene becomes exactly the
\* parsed sequence, whatever gesture is in progress.
RemoteUpdateReplacesScene ==
  [][\A c \in Clients :
       (/\ synced[c]
        /\ \E it \in doc'[c] \ doc[c] : it.client # c
        /\ JSON_parses(ymap_get(doc'[c])))
       => wb'[c].elements = JSON_parse(ymap_get(doc'[c]))]_vars

\* client B's clear has replaced A's scene in the middle of a resize
RemoteUpdateReplacesSceneWitness ==
  /\ wb["A"].is_resizing /\ wb["A"].resize_start # Null
  /\ wb["A"].resize_start.elements # <<>>
  /\ wb["A"].elements = <<>>
  /\ \E it \in doc["A"] : it.client = "B" /\ ItemId(it) = LastItem(NoItem, doc["A"])

\* C8: for a synced client, right after a local handler that committed a
\* mutation (it changed the scene, ended a drag or a resize, or wrote, and
\* leaves no drag or resize running), the blob under the key parses to
\* exactly the client's scene.
BlobEqualsSceneAfterCommit ==
  [][\A c \in Clients :
       (/\ synced[c]
        /\ wb'[c] # wb[c]
        /\ ~\E it \in doc'[c] \ doc[c] : it.client # c
        /\ \/ wb'[c].elements # wb[c].elements
           \/ wb[c].is_dragging \/ wb[c].is_resizing
           \/ doc'[c] # doc[c]
        /\ ~wb'[c].is_dragging /\ ~wb'[c].is_resizing)
       => /\ JSON_parses(ymap_get(doc'[c]))
          /\ JSON_parse(ymap_get(doc'[c])) = wb'[c].elements]_vars

\* A has moved or resized an element of the initial scene, the gesture has
\* ended and the blob is A's scene
BlobEqualsSceneAfterCommitWitness ==
  /\ ~wb["A"].is_dragging /\ ~wb["A"].is_resizing
  /\ Len(wb["A"].elements) = Len(watch.base)
  /\ \E i \in 1..Len(wb["A"].elements) :
       /\ wb["A"].elements[i].id = watch.base[i].id
       /\ wb["A"].elements[i] # watch.base[i]
  /\ \E it \in doc["A"] : it.client = "A" /\ ItemId(it) = LastItem(NoItem, doc["A"])
  /\ JSON_parse(ymap_get(doc["A"])) = wb["A"].elements

\* C9: when every client is synced, no gesture is in progress and every
\* written item has been delivered everywhere (so that nothing more can
\* happen without a local action), all scenes are equal, and equal to the
\* parsed blob if the key holds one.
ScenesConverge ==
  Settled
    => /\ \A c, d \in Clients : wb[c].elements = wb[d].elements
       /\ \A c \in Clients :
            ymap_get(doc[c]) # Undefined /\ JSON_parses(ymap_get(doc[c]))
              => wb[c].elements = JSON_parse(ymap_get(doc[c]))

\* C10: the selection only holds ids of elements of the scene.
SelectionWithinScene ==
  \A c \in Clients : wb[c].selected_ids \subseteq Ids(wb[c].elements)

(***************************************************************************)
(* One client with the select tool: pointer-downs, pointer-moves and       *)
(* pointer-ups over a scene with a rectangle, a stroke, a text wider than   *)
(* the rectangle and a horizontal line, starting from a selection made      *)
(* earlier.  Here `watch` remembers the last pointer-down: its point,       *)
(* whether the component was idle before it, the scene before it, the       *)
(* component right after it, the point of the last pointer-move since and   *)
(* whether there were several.                                              *)
(***************************************************************************)
RectA == Shape(201, "rect", Pt(0, 0), Pt(50, 50), "#1a1a1a", 4)
StrokeB == Stroke(202, <<Pt(50, 50), Pt(100, 100)>>, "#1a1a1a", 4)
TextC == Text(203, Pt(0, 24), <<"h", "e", "l", "l", "o">>, "#1a1a1a", 4, NEW_FONT_SIZE)
LineL == Shape(204, "line", Pt(0, 100), Pt(50, 100), "#1a1a1a", 4)
GestureScene == <<RectA, StrokeB, TextC, LineL>>
GestureSelections ==
  {{RectA.id}, {StrokeB.id}, {RectA.id, StrokeB.id}, {RectA.id, TextC.id},
   {LineL.id}, {RectA.id, LineL.id}, {}}
GesturePts ==
  {Pt(0, 0), Pt(50, 0), Pt(0, 50), Pt(50, 50), Pt(100, 50), Pt(100, 100),
   Pt(0, 100), Pt(50, 100), Pt(72, 50), Pt(144, 100)}

NoGesture ==
  [p0 |-> Null, from_idle |-> FALSE, before |-> <<>>, at_down |-> Null, last |-> Null,
   moves |-> 0, shift |-> FALSE]

InitGesture ==
  \E sel \in GestureSelections :
    /\ wb = [c \in Clients |->
               [InitWhiteboard EXCEPT !.elements = GestureScene, !.tool = "select",
                                      !.selected_ids = IF c = "A" THEN sel ELSE {}]]
    /\ synced = [c \in Clients |-> TRUE]
    /\ doc = [c \in Clients |-> {InitItem(GestureScene)}]
    /\ next_id = 1
    /\ steps = 0
    /\ watch = NoGesture
    /\ clientID = [c \in Clients \cup {"init"} |-> IF c = "A" THEN 1 ELSE 0]

GestureDown ==
  /\ Tick(MaxGestureSteps)
  /\ \E point \in GesturePts :
       LET r == handle_pointer_down(wb["A"], point, FALSE, next_id)
       IN /\ Commit("A", r)
          /\ watch' = [p0 |-> point, from_idle |-> Idle(wb["A"]),
                       before |-> wb["A"].elements, at_down |-> r.st, last |-> Null,
                       moves |-> 0, shift |-> FALSE]

GestureMove ==
  /\ Tick(MaxGestureSteps)
  /\ \E point \in GesturePts :
       /\ resize_exact(wb["A"], point)
       /\ Commit("A", handle_pointer_move(wb["A"], point))
       /\ watch' = [watch EXCEPT !.last = point, !.moves = Min(@ + 1, 2)]

GestureUp ==
  /\ Tick(MaxGestureSteps)
  /\ Commit("A", handle_pointer_up(wb["A"]))
  /\ watch' = NoGesture

NextGesture == GestureDown \/ GestureMove \/ GestureUp

SpecGesture == InitGesture /\ [][NextGesture]_vars

\* The same session with clicks only, made with or without the Shift key.
GestureShiftDown ==
  /\ Tick(MaxGestureSteps)
  /\ \E point \in GesturePts :
       LET r == handle_pointer_down(wb["A"], point, TRUE, next_id)
       IN /\ Commit("A", r)
          /\ watch' = [p0 |-> point, from_idle |-> Idle(wb["A"]),
                       before |-> wb["A"].elements, at_down |-> r.st, last |-> Null,
                       moves |-> 0, shift |-> TRUE]

NextClick == GestureDown \/ GestureShiftDown \/ GestureUp

SpecClick == InitGesture /\ [][NextClick]_vars

(***************************************************************************)
(* A room in which another peer of the document, not a whiteboard, writes  *)
(* a text that is not JSON under the key, and in which a component may be   *)
(* mounted again (the file is reopened).                                    *)
(***************************************************************************)
\* ymap.set('elements', <not JSON>) by the other peer, made on top of what
\* client c's replica holds and integrated there; c's observer runs.
ForeignWrite(c, budget) ==
  /\ Tick(budget)
  /\ synced[c]
  /\ \A it \in AllItems : it.client # "other"
  /\ doc' = [doc EXCEPT ![c] = ymap_set("other", @, Garbage)]
  /\ wb' = [wb EXCEPT ![c] = sync_from_yjs(@, ymap_get(doc'[c]))]
  /\ UNCHANGED <<synced, clientID, next_id, watch>>

\* The component of client c is mounted anew: every useState and useRef cell
\* has its initial value, then the effect runs sync_from_yjs once.
Mount(c, budget) ==
  /\ Tick(budget)
  /\ synced[c]
  /\ wb' = [wb EXCEPT ![c] = sync_from_yjs(InitWhiteboard, ymap_get(doc[c]))]
  /\ UNCHANGED <<synced, doc, clientID, next_id, watch>>

InitBlob ==
  /\ \E scene \in InitScenes : InitRoom(scene, TRUE)
  /\ clientID = [c \in Clients \cup {"init", "other"} |->
                   IF c = "init" THEN 0 ELSE IF c = "A" THEN 1
                   ELSE IF c = "B" THEN 2 ELSE 3]

NextBlob ==
  \E c \in Clients :
    \/ PointerDown(c, MaxBlobSteps)
    \/ PointerUp(c, MaxBlobSteps)
    \/ Deliver(c, MaxBlobSteps)
    \/ ForeignWrite(c, MaxBlobSteps)
    \/ Mount(c, MaxBlobSteps)

SpecBlob == InitBlob /\ [][NextBlob]_vars

(***************************************************************************)
(* One client using the mouse on the canvas and the Space key, with the    *)
(* tool chosen before.  The handlers of the canvas element call the pan     *)
(* handlers and then, depending on is_panning as it was when the component  *)
(* was last rendered, the pointer handlers.  Here `watch` follows a pan     *)
(* gesture begun while no other gesture was in progress: whether it is      *)
(* running or has just ended, and the scene, selection, stacks and replica  *)
(* before it.                                                               *)
(***************************************************************************)
LEFT_BUTTON == 0
MIDDLE_BUTTON == 1
ScreenPts == {Pt(0, 0), Pt(20, 20), Pt(40, 40)}

\* (screen - offset) / scale, to the scene unit below
screen_to_canvas(s, screen) ==
  Pt(((screen.x - s.offset.x) * SCALE_UNIT) \div s.scale,
     ((screen.y - s.offset.y) * SCALE_UNIT) \div s.scale)

handle_pan_start(s, button, client) ==
  IF button = MIDDLE_BUTTON \/ s.space_pressed
  THEN [s EXCEPT !.is_panning = TRUE,
                 !.pan_start = Pt(client.x - s.offset.x, client.y - s.offset.y)]
  ELSE s

handle_pan_move(s, client) ==
  IF s.is_panning
  THEN [s EXCEPT !.offset = Pt(client.x - s.pan_start.x, client.y - s.pan_start.y)]
  ELSE s

handle_pan_end(s) == [s EXCEPT !.is_panning = FALSE]

\* onMouseDown={(e) => { handle_pan_start(e);
\*   if (!is_panning && !space_pressed_ref.current) handle_pointer_down(e) }}
canvas_mouse_down(s, button, client, id) ==
  LET panned == handle_pan_start(s, button, client)
  IN IF ~s.is_panning /\ ~s.space_pressed
     THEN handle_pointer_down(panned, screen_to_canvas(s, client), FALSE, id)
     ELSE Ret(panned, <<>>, FALSE)

\* onMouseMove={(e) => { handle_pan_move(e); if (!is_panning) handle_pointer_move(e) }}
canvas_mouse_move(s, client) ==
  LET panned == handle_pan_move(s, client)
  IN IF ~s.is_panning
     THEN handle_pointer_move(panned, screen_to_canvas(s, client))
     ELSE Ret(panned, <<>>, FALSE)

\* onMouseUp and onMouseLeave: handle_pan_end(); handle_pointer_up()
canvas_mouse_up(s) == handle_pointer_up(handle_pan_end(s))

\* what a pan gesture is to leave alone
Snapshot(c) ==
  [elements |-> wb[c].elements, selected_ids |-> wb[c].selected_ids,
   history |-> wb[c].history, redo_stack |-> wb[c].redo_stack, map |-> doc[c]]

NoPan == [pan |-> "none", pre |-> Null]

InitView ==
  \E scene \in InitScenes, tool \in ToolsOffered :
    /\ wb = [c \in Clients |->
               [InitWhiteboard EXCEPT !.elements = scene,
                                      !.tool = IF c = "A" THEN tool ELSE @]]
    /\ synced = [c \in Clients |-> TRUE]
    /\ doc = [c \in Clients |-> {InitItem(scene)}]
    /\ next_id = 1
    /\ steps = 0
    /\ watch = NoPan
    /\ clientID = [c \in Clients \cup {"init"} |-> IF c = "A" THEN 1 ELSE 0]

MouseDown ==
  /\ Tick(MaxViewSteps)
  /\ \E button \in {LEFT_BUTTON, MIDDLE_BUTTON}, client \in ScreenPts :
       /\ Commit("A", canvas_mouse_down(wb["A"], button, client, next_id))
       /\ watch' = IF /\ button = MIDDLE_BUTTON \/ wb["A"].space_pressed
                      /\ Idle(wb["A"]) /\ ~wb["A"].is_panning
                   THEN [pan |-> "running", pre |-> Snapshot("A")]
                   ELSE NoPan

MouseMove ==
  /\ Tick(MaxViewSteps)
  /\ \E client \in ScreenPts :
       /\ wb["A"].is_panning \/ resize_exact(wb["A"], screen_to_canvas(wb["A"], client))
       /\ Commit("A", canvas_mouse_move(wb["A"], client))
       /\ UNCHANGED watch

MouseUp ==
  /\ Tick(MaxViewSteps)
  /\ Commit("A", canvas_mouse_up(wb["A"]))
  /\ watch' = IF watch.pan = "running" THEN [watch EXCEPT !.pan = "done"] ELSE NoPan

\* keydown of Space: space_pressed_ref.current = true unless a text is edited
SpaceDown ==
  /\ Tick(MaxViewSteps)
  /\ Commit("A", Ret(IF wb["A"].text_input = Null
                     THEN [wb["A"] EXCEPT !.space_pressed = TRUE] ELSE wb["A"],
                     <<>>, FALSE))
  /\ watch' = NoPan

\* keyup of Space
SpaceUp ==
  /\ Tick(MaxViewSteps)
  /\ Commit("A", Ret([wb["A"] EXCEPT !.space_pressed = FALSE, !.is_panning = FALSE],
                     <<>>, FALSE))
  /\ watch' = NoPan

NextView == MouseDown \/ MouseMove \/ MouseUp \/ SpaceDown \/ SpaceUp

SpecView == InitView /\ [][NextView]_vars

(***************************************************************************)
(* One client drawing with the pen, in a colour and a width chosen before. *)
(* Here `watch` follows the pen gesture: the points the pointer has been    *)
(* at since the pointer-down, whether the component was idle before it,     *)
(* the scene and the undo stack before it, and whether the pointer has gone *)
(* up.                                                                      *)
(***************************************************************************)
NoStroke ==
  [path |-> <<>>, from_idle |-> FALSE, elements |-> <<>>, history |-> <<>>,
   up |-> FALSE]

InitDraw ==
  \E scene \in InitScenes, color \in COLORS, stroke_width \in WIDTHS :
    /\ wb = [c \in Clients |->
               [InitWhiteboard EXCEPT !.elements = scene, !.color = color,
                                      !.stroke_width = stroke_width]]
    /\ synced = [c \in Clients |-> TRUE]
    /\ doc = [c \in Clients |-> {InitItem(scene)}]
    /\ next_id = 1
    /\ steps = 0
    /\ watch = NoStroke
    /\ clientID = [c \in Clients \cup {"init"} |-> IF c = "A" THEN 1 ELSE 0]

DrawDown ==
  /\ Tick(MaxDrawSteps)
  /\ \E point \in PointerPts :
       /\ Commit("A", handle_pointer_down(wb["A"], point, FALSE, next_id))
       /\ watch' = [path |-> <<point>>, from_idle |-> Idle(wb["A"]),
                    elements |-> wb["A"].elements, history |-> wb["A"].history,
                    up |-> FALSE]

DrawMove ==
  /\ Tick(MaxDrawSteps)
  /\ \E point \in PointerPts :
       /\ Commit("A", handle_pointer_move(wb["A"], point))
       /\ watch' = IF watch.path # <<>> /\ ~watch.up
                   THEN [watch EXCEPT !.path = Append(@, point)]
                   ELSE NoStroke

DrawUp ==
  /\ Tick(MaxDrawSteps)
  /\ Commit("A", handle_pointer_up(wb["A"]))
  /\ watch' = IF watch.path # <<>> /\ ~watch.up
              THEN [watch EXCEPT !.up = TRUE]
              ELSE NoStroke

NextDraw == DrawDown \/ DrawMove \/ DrawUp

SpecDraw == InitDraw /\ [][NextDraw]_vars

(***************************************************************************)
(* One client moving the view: Ctrl/Cmd-wheel zooms, wheel pans, Home,     *)
(* double-clicks (fit to content on empty canvas) and pans with the middle  *)
(* button, over scenes of several extents and in containers of several      *)
(* sizes.  Scales are in thousandths and offsets in whole pixels (the       *)
(* products the code leaves as fractions are taken to the unit below).      *)
(***************************************************************************)
\* clamp of scale * (1 + delta), delta = -deltaY * zoom_intensity
zoom_scale(scale, deltaY) ==
  LET n == scale * (ZOOM_STEPS - deltaY)
  IN IF n < MIN_SCALE * ZOOM_STEPS THEN MIN_SCALE
     ELSE IF n > MAX_SCALE * ZOOM_STEPS THEN MAX_SCALE
     ELSE n \div ZOOM_STEPS

handle_wheel(s, ctrl_key, deltaX, deltaY, mouse) ==
  IF ctrl_key THEN
    LET new_scale == zoom_scale(s.scale, deltaY)
    IN [s EXCEPT !.scale = new_scale,
                 !.offset = Pt(mouse.x - ((mouse.x - s.offset.x) * new_scale) \div s.scale,
                               mouse.y - ((mouse.y - s.offset.y) * new_scale) \div s.scale)]
  ELSE [s EXCEPT !.offset = Pt(s.offset.x - deltaX, s.offset.y - deltaY)]

reset_view(s) == [s EXCEPT !.scale = SCALE_UNIT, !.offset = Pt(0, 0)]

\* Math.min(1, available_w / content_w, available_h / content_h) in
\* thousandths; content extents are in tenths, and a quotient by a zero
\* extent is Infinity (the available extents of the containers are positive)
fit_scale(available_w, content_w, available_h, content_h) ==
  LET by_w == IF content_w = 0 THEN SCALE_UNIT
              ELSE (SCALE_UNIT * 10 * available_w) \div content_w
      by_h == IF content_h = 0 THEN SCALE_UNIT
              ELSE (SCALE_UNIT * 10 * available_h) \div content_h
  IN Min(SCALE_UNIT, Min(by_w, by_h))

fit_to_content(s) ==
  IF s.elements = <<>> THEN reset_view(s)
  ELSE
    LET box == get_selection_bounds(s.elements, Ids(s.elements))
        new_scale == fit_scale(s.container.width - 2 * FIT_PADDING, box.w,
                               s.container.height - 2 * FIT_PADDING, box.h)
    IN [s EXCEPT
          !.scale = new_scale,
          !.offset =
            Pt(s.container.width \div 2
                 - ((2 * box.x + box.w) * new_scale) \div (20 * SCALE_UNIT),
               s.container.height \div 2
                 - ((2 * box.y + box.h) * new_scale) \div (20 * SCALE_UNIT))]

handle_double_click(s, point) ==
  LET el == find_element_at(s.elements, point)
  IN IF el # Null /\ el.type = "text"
     THEN [open_text_input(s, el.position, el.text, el.id) EXCEPT !.color = el.color]
     ELSE IF el = Null THEN fit_to_content(s)
     ELSE s

WideStroke == Stroke(301, <<Pt(0, 0), Pt(2400, 0)>>, "#1a1a1a", 4)
ZoomScenes == InitScenes \cup {<<WideStroke>>}
Containers == {[width |-> 800, height |-> 600], [width |-> 320, height |-> 480]}
WheelDeltas == {0 - 100, 50, 200}

InitZoom ==
  \E scene \in ZoomScenes, container \in Containers :
    /\ wb = [c \in Clients |->
               [InitWhiteboard EXCEPT !.elements = scene, !.container = container]]
    /\ synced = [c \in Clients |-> TRUE]
    /\ doc = [c \in Clients |-> {InitItem(scene)}]
    /\ next_id = 1
    /\ steps = 0
    /\ watch = NoPan
    /\ clientID = [c \in Clients \cup {"init"} |-> IF c = "A" THEN 1 ELSE 0]

View(s) == Ret(s, <<>>, FALSE)

WheelZoom ==
  /\ Tick(MaxZoomSteps)
  /\ \E deltaY \in WheelDeltas, mouse \in {Pt(0, 0), Pt(40, 40)} :
       Commit("A", View(handle_wheel(wb["A"], TRUE, 0, deltaY, mouse)))
  /\ UNCHANGED watch

WheelPan ==
  /\ Tick(MaxZoomSteps)
  /\ \E deltaX \in {0, 20}, deltaY \in {0 - 20} :
       Commit("A", View(handle_wheel(wb["A"], FALSE, deltaX, deltaY, Pt(0, 0))))
  /\ UNCHANGED watch

Home ==
  /\ Tick(MaxZoomSteps)
  /\ Commit("A", View(reset_view(wb["A"])))
  /\ UNCHANGED watch

DoubleClick ==
  /\ Tick(MaxZoomSteps)
  /\ \E client \in {Pt(0, 0), Pt(20, 20)} :
       Commit("A", View(handle_double_click(wb["A"], screen_to_canvas(wb["A"], client))))
  /\ UNCHANGED watch

PanDown ==
  /\ Tick(MaxZoomSteps)
  /\ Commit("A", canvas_mouse_down(wb["A"], MIDDLE_BUTTON, Pt(0, 0), next_id))
  /\ UNCHANGED watch

PanMove ==
  /\ Tick(MaxZoomSteps)
  /\ wb["A"].is_panning
  /\ Commit("A", canvas_mouse_move(wb["A"], Pt(40, 40)))
  /\ UNCHANGED watch

PanUp ==
  /\ Tick(MaxZoomSteps)
  /\ Commit("A", canvas_mouse_up(wb["A"]))
  /\ UNCHANGED watch

NextZoom == WheelZoom \/ WheelPan \/ Home \/ DoubleClick \/ PanDown \/ PanMove \/ PanUp

SpecZoom == InitZoom /\ [][NextZoom]_vars

(***************************************************************************)
(* One client that draws, writes text, edits a text, drags and resizes:    *)
(* every local operation that creates or modifies an element, from a scene *)
(* whose elements have positive stroke widths and font sizes.              *)
(***************************************************************************)
SizeTools == {"select", "pen", "text"}
SizeSelections == {{TextC.id}, {RectA.id, TextC.id}}

InitSizes ==
  \E t \in SizeTools, width \in WIDTHS, sel \in SizeSelections :
    /\ wb = [c \in Clients |->
               [InitWhiteboard EXCEPT
                  !.elements = GestureScene, !.tool = t, !.stroke_width = width,
                  !.selected_ids = IF c = "A" /\ t = "select" THEN sel ELSE {}]]
    /\ synced = [c \in Clients |-> TRUE]
    /\ doc = [c \in Clients |-> {InitItem(GestureScene)}]
    /\ next_id = 1
    /\ steps = 0
    /\ watch = NoGesture
    /\ clientID = [c \in Clients \cup {"init"} |-> IF c = "A" THEN 1 ELSE 0]

SizeDown ==
  /\ Tick(MaxSizeSteps)
  /\ \E point \in GesturePts :
       Commit("A", handle_pointer_down(wb["A"], point, FALSE, next_id))
  /\ UNCHANGED watch

SizeMove ==
  /\ Tick(MaxSizeSteps)
  /\ \E point \in GesturePts :
       /\ resize_exact(wb["A"], point)
       /\ Commit("A", handle_pointer_move(wb["A"], point))
  /\ UNCHANGED watch

SizeUp ==
  /\ Tick(MaxSizeSteps)
  /\ Commit("A", handle_pointer_up(wb["A"]))
  /\ UNCHANGED watch

SizeType ==
  /\ Tick(MaxSizeSteps)
  /\ wb["A"].text_input # Null
  /\ \E v \in TextValues :
       /\ v # wb["A"].text_input.value
       /\ Commit("A", Ret([wb["A"] EXCEPT !.text_input.value = v], <<>>, FALSE))
  /\ UNCHANGED watch

SizeEnter ==
  /\ Tick(MaxSizeSteps)
  /\ wb["A"].text_input # Null
  /\ Commit("A", text_input_keydown(wb["A"], "Enter", next_id))
  /\ UNCHANGED watch

NextSizes == SizeDown \/ SizeMove \/ SizeUp \/ SizeType \/ SizeEnter

SpecSizes == InitSizes /\ [][NextSizes]_vars

(***************************************************************************)
(* One client at the text input: it opens the input (text tool click,      *)
(* double click), types, presses Enter or Escape in the input, and presses *)
(* the window's shortcuts, with the input open or closed.  watch holds the *)
(* key of the last key press, and the component and the replica before it. *)
(***************************************************************************)
TextScene == <<RectA, TextC>>
TextPts == {Pt(20, 20), Pt(100, 100)}
Shortcuts == Keys \ {"escape"}
NoKey == [key |-> "none", pre |-> Null, pre_doc |-> {}]

InitText ==
  \E t \in {"text", "select"} :
    /\ wb = [c \in Clients |->
               [InitWhiteboard EXCEPT
                  !.elements = TextScene, !.tool = t,
                  !.selected_ids = IF c = "A" /\ t = "select" THEN {TextC.id} ELSE {}]]
    /\ synced = [c \in Clients |-> TRUE]
    /\ doc = [c \in Clients |-> {InitItem(TextScene)}]
    /\ next_id = 1
    /\ steps = 0
    /\ watch = NoKey
    /\ clientID = [c \in Clients \cup {"init"} |-> IF c = "A" THEN 1 ELSE 0]

KeyPress(key, r) ==
  /\ Commit("A", r)
  /\ watch' = [key |-> key, pre |-> wb["A"], pre_doc |-> doc["A"]]

TextClick ==
  /\ Tick(MaxTextSteps)
  /\ wb["A"].tool = "text"
  /\ \E point \in TextPts :
       Commit("A", handle_pointer_down(wb["A"], point, FALSE, next_id))
  /\ watch' = NoKey

TextDoubleClick ==
  /\ Tick(MaxTextSteps)
  /\ \E point \in TextPts : Commit("A", View(handle_double_click(wb["A"], point)))
  /\ watch' = NoKey

TextType ==
  /\ Tick(MaxTextSteps)
  /\ wb["A"].text_input # Null
  /\ \E v \in TextValues :
       /\ v # wb["A"].text_input.value
       /\ Commit("A", View([wb["A"] EXCEPT !.text_input.value = v]))
  /\ watch' = NoKey

TextEnter ==
  /\ Tick(MaxTextSteps)
  /\ wb["A"].text_input # Null
  /\ KeyPress("Enter", text_input_keydown(wb["A"], "Enter", next_id))

TextEscape ==
  /\ Tick(MaxTextSteps)
  /\ wb["A"].text_input # Null
  /\ KeyPress("Escape", text_input_keydown(wb["A"], "Escape", next_id))

TextShortcut ==
  /\ Tick(MaxTextSteps)
  /\ \E key \in Shortcuts : KeyPress(key, handle_keydown(wb["A"], key))

NextText ==
  TextClick \/ TextDoubleClick \/ TextType \/ TextEnter \/ TextEscape \/ TextShortcut

SpecText == InitText /\ [][NextText]_vars

(***************************************************************************)
(* find_element_at, move_element and get_element_bounds as functions: a    *)
(* scene of elements of every type, some overlapping, probed at the points *)
(* of a grid and translated by some deltas.  watch holds the last          *)
(* application and its result.                                             *)
(***************************************************************************)
EllipseE == Shape(205, "ellipse", Pt(25, 25), Pt(75, 50), "#6366f1", 2)
ArrowR == Shape(206, "arrow", Pt(100, 0), Pt(50, 25), "#1a1a1a", 4)
DotD == Stroke(207, <<Pt(100, 0)>>, "#1a1a1a", 4)
HitScenes ==
  {<<RectA, StrokeB, TextC, LineL>>, <<TextC, RectA, EllipseE>>,
   <<StrokeB, EllipseE, ArrowR>>, <<LineL, ArrowR, DotD, RectA>>, <<>>}
HitCoords == {0, 25, 50, 75, 100}
HitPts == {Pt(px, py) : px \in HitCoords, py \in HitCoords}
Deltas == {Pt(10, 0 - 5), Pt(0 - 30, 40), Pt(0, 0)}
NoProbe ==
  [op |-> "none", point |-> Pt(0, 0), found |-> Null, el |-> Null,
   delta |-> Pt(0, 0), moved |-> Null]

InitHit ==
  \E scene \in HitScenes :
    /\ wb = [c \in Clients |-> [InitWhiteboard EXCEPT !.elements = scene]]
    /\ synced = [c \in Clients |-> TRUE]
    /\ doc = [c \in Clients |-> {InitItem(scene)}]
    /\ next_id = 1
    /\ steps = 0
    /\ watch = NoProbe
    /\ clientID = [c \in Clients \cup {"init"} |-> IF c = "A" THEN 1 ELSE 0]

Probe ==
  /\ Tick(MaxHitSteps)
  /\ \E point \in HitPts :
       watch' = [NoProbe EXCEPT !.op = "hit", !.point = point,
                                !.found = find_element_at(wb["A"].elements, point)]
  /\ UNCHANGED <<wb, synced, doc, clientID, next_id>>

Translate ==
  /\ Tick(MaxHitSteps)
  /\ \E i \in 1..Len(wb["A"].elements), delta \in Deltas :
       watch' = [NoProbe EXCEPT !.op = "move", !.el = wb["A"].elements[i],
                                !.delta = delta,
                                !.moved = move_element(wb["A"].elements[i], delta)]
  /\ UNCHANGED <<wb, synced, doc, clientID, next_id>>

NextHit == Probe \/ Translate

SpecHit == InitHit /\ [][NextHit]_vars

(***************************************************************************)
(* Client A draws, drags or edits a text while client B, which has         *)
(* received everything A wrote, replaces the scene.  watch holds the last  *)
(* event (op), A's component before it (pre), the last pointer-down        *)
(* (p0, whether A was idle, the scene then), the last pointer position and *)
(* the scene last received since that pointer-down.                        *)
(***************************************************************************)
RemoteTools == {"pen", "rect", "select", "text"}
RemoteSelections == {{RectA.id, StrokeB.id}, {StrokeB.id, LineL.id}}
RemotePts == {Pt(50, 0), Pt(20, 20), Pt(72, 50), Pt(100, 50)}
RemoteScenes == {GestureScene, <<StrokeB, TextC, LineL>>, <<RectA, LineL>>, <<>>}
\* no scene received yet (seen), else the scene last received
NoScene == [seen |-> FALSE, scene |-> <<>>]
NoEvent ==
  [op |-> "none", pre |-> Null, p0 |-> Null, from_idle |-> FALSE, start |-> <<>>,
   last |-> Null, remote |-> NoScene]

InitRemote ==
  \E t \in RemoteTools, sel \in RemoteSelections :
    /\ wb = [c \in Clients |->
               [InitWhiteboard EXCEPT
                  !.elements = GestureScene, !.tool = t,
                  !.selected_ids = IF c = "A" /\ t = "select" THEN sel ELSE {}]]
    /\ synced = [c \in Clients |-> TRUE]
    /\ doc = [c \in Clients |-> {InitItem(GestureScene)}]
    /\ next_id = 1
    /\ steps = 0
    /\ watch = NoEvent
    /\ clientID = [c \in Clients \cup {"init"} |->
                     IF c = "A" THEN 1 ELSE IF c = "B" THEN 2 ELSE 0]

\* B's replica holds what A's holds; B sets the key, and the item reaches A
RemoteReplace ==
  /\ Tick(MaxRemoteSteps)
  /\ \E scene \in RemoteScenes :
       LET known == ymap_set("B", doc["A"], JSON_stringify(scene))
       IN /\ doc' = [c \in Clients |-> known]
          /\ wb' = [wb EXCEPT !["A"] = sync_from_yjs(@, ymap_get(known)),
                              !["B"] = [@ EXCEPT !.elements = scene]]
          /\ watch' = [watch EXCEPT !.op = "remote", !.pre = wb["A"], !.remote = [seen |-> TRUE, scene |-> scene]]
  /\ UNCHANGED <<synced, clientID, next_id>>

RemoteDown ==
  /\ Tick(MaxRemoteSteps)
  /\ \E point \in RemotePts :
       /\ Commit("A", handle_pointer_down(wb["A"], point, FALSE, next_id))
       /\ watch' = [op |-> "down", pre |-> wb["A"], p0 |-> point,
                    from_idle |-> Idle(wb["A"]), start |-> wb["A"].elements,
                    last |-> point, remote |-> NoScene]

RemoteMove ==
  /\ Tick(MaxRemoteSteps)
  /\ \E point \in RemotePts :
       /\ resize_exact(wb["A"], point)
       /\ Commit("A", handle_pointer_move(wb["A"], point))
       /\ watch' = [watch EXCEPT !.op = "move", !.pre = wb["A"], !.last = point]

RemoteUp ==
  /\ Tick(MaxRemoteSteps)
  /\ Commit("A", handle_pointer_up(wb["A"]))
  /\ watch' = [watch EXCEPT !.op = "up", !.pre = wb["A"]]

RemoteEnter ==
  /\ Tick(MaxRemoteSteps)
  /\ wb["A"].text_input # Null
  /\ Commit("A", text_input_keydown(wb["A"], "Enter", next_id))
  /\ watch' = [watch EXCEPT !.op = "enter", !.pre = wb["A"]]

NextRemote == RemoteReplace \/ RemoteDown \/ RemoteMove \/ RemoteUp \/ RemoteEnter

SpecRemote == InitRemote /\ [][NextRemote]_vars

(***************************************************************************)
(* Identity and order of the elements.                                     *)
(***************************************************************************)
\* client c handled a local event (no item of another client arrived)
LocalStep(c) ==
  /\ wb'[c] # wb[c]
  /\ ~\E it \in doc'[c] \ doc[c] : it.client # c

\* the step is a pointer-move that client c handles as a resize or as a drag
DragOrResizeMove(c) ==
  /\ \/ wb[c].is_resizing /\ wb[c].resize_handle # "none" /\ wb[c].resize_start # Null
     \/ wb[c].is_dragging /\ wb[c].selected_ids # {}
  /\ \E point \in PointerPts : wb'[c] = handle_pointer_move(wb[c], point).st

\* the step commits client c's edit of an existing text to a non-empty value
TextEditCommit(c) ==
  /\ wb[c].text_input # Null
  /\ wb[c].text_input.editing_id # NoId
  /\ Trim(wb[c].text_input.value) # <<>>
  /\ wb'[c] = handle_text_submit(wb[c], next_id).st

UniqueIds(els) == \A i, j \in 1..Len(els) : els[i].id = els[j].id => i = j

\* C11: with fresh ids for new elements, no two elements of a client's scene
\* ever share an id, and the pointer-moves of a drag or resize and the commit
\* of a non-empty text edit leave the set of ids of the scene unchanged.
IdsUniqueAndStable ==
  /\ [](\A c \in Clients : UniqueIds(wb[c].elements))
  /\ [][\A c \in Clients :
          LocalStep(c) /\ (DragOrResizeMove(c) \/ TextEditCommit(c))
            => Ids(wb'[c].elements) = Ids(wb[c].elements)]_vars

\* A has edited the text of the initial scene, which kept its id
IdsUniqueAndStableWitness ==
  /\ UniqueIds(wb["A"].elements)
  /\ \E i \in 1..Len(wb["A"].elements) :
       /\ wb["A"].elements[i].id = TextT.id
       /\ wb["A"].elements[i].type = "text"
       /\ wb["A"].elements[i].text # TextT.text
  /\ wb["A"].text_input = Null

\* C12: local operations keep the z-order.  A step that is not undo, redo or
\* clear and changes the scene either keeps every element at its index (drag,
\* resize, text edit), or removes elements and keeps the others in their
\* order (erase, delete-selected, empty-text commit), or appends one element
\* at the end (draw commit, new-text commit).
ZOrderPreserved ==
  [][\A c \in {"A"} :
       LET old == wb[c].elements
           new == wb'[c].elements
       IN (LocalStep(c) /\ new # old /\ ~UndoOrRedoStep /\ ~DoClear(c))
          => /\ \/ /\ Len(new) = Len(old)
                   /\ \A i \in 1..Len(old) : new[i].id = old[i].id
                \/ /\ Len(new) < Len(old)
                   /\ new = SelectSeq(old, LAMBDA el : el.id \in Ids(new))
                \/ /\ Len(new) = Len(old) + 1
                   /\ SubSeq(new, 1, Len(old)) = old
                   /\ new[Len(new)].id \notin Ids(old)
             /\ DragOrResizeMove(c) \/ TextEditCommit(c) => Len(new) = Len(old)
             /\ wb[c].tool = "eraser" /\ ~DragOrResizeMove(c) /\ wb[c].text_input = Null
                  => Len(new) < Len(old)
             /\ wb'[c] = delete_selected(wb[c]).st => Len(new) < Len(old)
             /\ wb[c].is_drawing /\ wb'[c] = handle_pointer_up(wb[c]).st
                  => Len(new) = Len(old) + 1]_vars

\* the element in the middle of the initial scene was removed, the others kept
\* their order, and a new element was appended at the end
ZOrderPreservedWitness ==
  /\ Len(wb["A"].elements) = 3
  /\ wb["A"].elements[1] = RectR
  /\ wb["A"].elements[2].id = TextT.id
  /\ wb["A"].elements[3].id \notin Ids(watch.base)

(***************************************************************************)
(* Drag and resize geometry.                                               *)
(***************************************************************************)
\* the coordinates of an element, and the element without them
Coords(el) ==
  IF el.type = "stroke" THEN el.points
  ELSE IF el.type = "text" THEN <<el.position>>
  ELSE <<el.start, el.end>>
Rest(el) ==
  IF el.type = "stroke" THEN [el EXCEPT !.points = <<>>]
  ELSE IF el.type = "text" THEN [el EXCEPT !.position = Pt(0, 0)]
  ELSE [el EXCEPT !.start = Pt(0, 0), !.end = Pt(0, 0)]

\* A's step is a pointer-move of a gesture: the pointer went down while the
\* component was idle and has not gone up since
MoveStep == steps' # steps /\ watch'.last # Null /\ watch.p0 # Null /\ watch.from_idle

\* C13: after a pointer-move of a drag, every coordinate of every selected
\* element is its coordinate at pointer-down plus (pointer - pointer-down
\* point), the same delta for all of them, and every other element is as it
\* was at pointer-down.
DragTranslatesSelection ==
  [][MoveStep /\ watch.at_down.is_dragging
       => LET dx == watch'.last.x - watch.p0.x
              dy == watch'.last.y - watch.p0.y
              S == watch.at_down.selected_ids
              start == watch.before
              now == wb'["A"].elements
          IN /\ Len(now) = Len(start)
             /\ \A i \in 1..Len(start) :
                  IF start[i].id \in S
                  THEN /\ Rest(now[i]) = Rest(start[i])
                       /\ Len(Coords(now[i])) = Len(Coords(start[i]))
                       /\ \A k \in 1..Len(Coords(start[i])) :
                            /\ Coords(now[i])[k].x = Coords(start[i])[k].x + dx
                            /\ Coords(now[i])[k].y = Coords(start[i])[k].y + dy
                  ELSE now[i] = start[i]]_vars

\* a drag of two selected elements has followed the pointer away from the
\* pointer-down point
DragTranslatesSelectionWitness ==
  /\ wb["A"].is_dragging /\ watch.from_idle
  /\ Cardinality(wb["A"].selected_ids) = 2
  /\ watch.last # Null /\ watch.last # watch.p0
  /\ wb["A"].elements # watch.before
  /\ wb["A"].elements[4] = LineL

\* the selected strokes and shapes captured at the start of the resize
CapturedShapes(s) ==
  {s.resize_start.elements[i].id : i \in
     {j \in 1..Len(s.resize_start.elements) : s.resize_start.elements[j].type # "text"}}

\* A's step is a pointer-move of a resize whose captured bounds have an area
ResizeMove ==
  /\ MoveStep /\ watch.at_down.is_resizing
  /\ wb["A"].resize_start.bounds.w # 0
  /\ wb["A"].resize_start.bounds.h # 0

\* every coordinate of a selected stroke or shape is the affine image of its
\* coordinate at the start of the resize, and the rest of the scene is as it
\* was (bounds are in tenths, coordinates in units)
ResizeMapsCoordinates ==
  LET s == wb["A"]
      ob == s.resize_start.bounds
      nb == resize_bounds(ob, s.resize_handle, watch'.last)
      start == watch.before
      now == wb'["A"].elements
      captured == {s.resize_start.elements[i].id : i \in 1..Len(s.resize_start.elements)}
  IN /\ Len(now) = Len(start)
     /\ \A i \in 1..Len(start) :
          IF start[i].id \in CapturedShapes(s)
          THEN /\ Rest(now[i]) = Rest(start[i])
               /\ Len(Coords(now[i])) = Len(Coords(start[i]))
               /\ \A k \in 1..Len(Coords(start[i])) :
                    /\ 10 * Coords(now[i])[k].x * ob.w
                         = nb.x * ob.w + (10 * Coords(start[i])[k].x - ob.x) * nb.w
                    /\ 10 * Coords(now[i])[k].y * ob.h
                         = nb.y * ob.h + (10 * Coords(start[i])[k].y - ob.y) * nb.h
          ELSE start[i].id \notin captured => now[i] = start[i]

\* the union bounds of the selected strokes and shapes are the requested bounds
ResizeReachesRequestedBounds ==
  LET s == wb["A"]
      nb == resize_bounds(s.resize_start.bounds, s.resize_handle, watch'.last)
  IN CapturedShapes(s) # {}
       => get_selection_bounds(wb'["A"].elements, CapturedShapes(s)) = nb

\* C14 as stated: during a resize with non-zero captured bounds every
\* coordinate of a selected stroke or shape maps to
\* new.x + (p.x - old.x) * new.w / old.w (and likewise for y), unselected
\* elements are unchanged, and the union bounds of the selected strokes and
\* shapes equal the requested new bounds.
ResizeFillsRequestedBounds ==
  [][ResizeMove => ResizeMapsCoordinates /\ ResizeReachesRequestedBounds]_vars

\* C14, amended: the mapping holds for every selection; the union bounds of
\* the selected strokes and shapes equal the requested bounds when the captured
\* bounds were their union bounds (no selected text reaches beyond them).
ResizeMapsIntoRequestedBounds ==
  [][ResizeMove
       => /\ ResizeMapsCoordinates
          /\ get_selection_bounds(wb["A"].resize_start.elements, CapturedShapes(wb["A"]))
               = wb["A"].resize_start.bounds
             => ResizeReachesRequestedBounds]_vars

\* the rectangle {0, 0, 50, 50} has been resized to {0, 0, 100, 50}
ResizeMapsIntoRequestedBoundsWitness ==
  /\ wb["A"].is_resizing /\ watch.from_idle /\ watch.last = Pt(100, 50)
  /\ wb["A"].selected_ids = {RectA.id}
  /\ wb["A"].elements[1] = [RectA EXCEPT !.end = Pt(100, 50)]
  /\ wb["A"].elements[2] = StrokeB

\* C15: during a resize gesture, whatever the handle and the pointer position,
\* the candidate bounds keep the two edges opposite to the dragged corner at
\* their original coordinates and are at least MIN_RESIZE wide and high.
ResizeKeepsOppositeEdges ==
  wb["A"].is_resizing /\ watch.from_idle /\ watch.p0 # Null
    => \A point \in GesturePts :
         LET ob == wb["A"].resize_start.bounds
             handle == wb["A"].resize_handle
             nb == resize_bounds(ob, handle, point)
         IN /\ handle \in {"nw", "sw"} => nb.x + nb.w = ob.x + ob.w
            /\ handle \in {"ne", "se"} => nb.x = ob.x
            /\ handle \in {"nw", "ne"} => nb.y + nb.h = ob.y + ob.h
            /\ handle \in {"sw", "se"} => nb.y = ob.y
            /\ nb.w >= 10 * MIN_RESIZE
            /\ nb.h >= 10 * MIN_RESIZE

\* C16: the scene after a pointer-move of a resize is the one a single move
\* to that pointer position gives from the component as it was right after
\* the pointer-down, whatever moves came between, and handling the same move
\* again changes nothing.
ResizePathIndependent ==
  [][MoveStep /\ watch.at_down.is_resizing
       => /\ wb'["A"].elements
               = handle_pointer_move(watch.at_down, watch'.last).st.elements
          /\ handle_pointer_move(wb'["A"], watch'.last).st = wb'["A"]]_vars

\* a resize of the rectangle and the stroke has had two pointer-moves and has
\* brought them to half their size
ResizePathIndependentWitness ==
  /\ wb["A"].is_resizing /\ watch.from_idle /\ watch.moves = 2
  /\ wb["A"].elements # watch.before
  /\ wb["A"].elements[2] = [StrokeB EXCEPT !.points = <<Pt(25, 25), Pt(50, 50)>>]

\* C17: when the bounds captured at the start of a resize have zero width or
\* zero height, every pointer-move of the gesture leaves the scene as it was.
DegenerateResizeIsNoOp ==
  [][(/\ MoveStep /\ watch.at_down.is_resizing
      /\ \/ wb["A"].resize_start.bounds.w = 0
         \/ wb["A"].resize_start.bounds.h = 0)
       => /\ wb'["A"].elements = wb["A"].elements
          /\ wb'["A"].elements = watch.before]_vars

\* the horizontal line is being resized and the pointer has left the handle
DegenerateResizeIsNoOpWitness ==
  /\ wb["A"].is_resizing /\ watch.from_idle
  /\ wb["A"].selected_ids = {LineL.id}
  /\ wb["A"].resize_start.bounds.h = 0
  /\ watch.last # Null /\ watch.last # watch.p0

(***************************************************************************)
(* Reading the blob.                                                       *)
(***************************************************************************)
\* client c has read the key in this step: its component was mounted or its
\* replica integrated an item written elsewhere
BlobRead(c) ==
  \/ doc'[c] # doc[c] /\ \E it \in doc'[c] \ doc[c] : it.client # c
  \/ /\ doc'[c] = doc[c] /\ wb'[c] # wb[c]
     /\ wb'[c] = sync_from_yjs(InitWhiteboard, ymap_get(doc[c]))

\* C18: when the blob a client reads, on mount or on a notification of a
\* remote change, does not parse, nothing is thrown and the client's scene is
\* the empty sequence afterwards.
UnparsableBlobEmptiesScene ==
  [][\A c \in Clients :
       (/\ BlobRead(c)
        /\ ymap_get(doc'[c]) # Undefined
        /\ ~JSON_parses(ymap_get(doc'[c])))
         => wb'[c].elements = <<>>]_vars

(***************************************************************************)
(* Panning and the interaction modes.                                      *)
(***************************************************************************)
\* C19: a pan gesture (mouse-down with Space held or with the middle button,
\* moves, mouse-up), whatever the tool, leaves the scene, the selection, the
\* undo and redo stacks and the replicated map as they were before it.
PanChangesOnlyView ==
  watch.pan = "done" => Snapshot("A") = watch.pre

Modes ==
  {"Drawing", "Erasing", "Dragging", "Resizing", "BoxSelecting", "Panning", "TextEditing"}

Active(s, mode) ==
  CASE mode = "Drawing" -> s.is_drawing /\ s.tool # "eraser"
    [] mode = "Erasing" -> s.is_drawing /\ s.tool = "eraser"
    [] mode = "Dragging" -> s.is_dragging
    [] mode = "Resizing" -> s.is_resizing
    [] mode = "BoxSelecting" -> s.is_box_selecting
    [] mode = "Panning" -> s.is_panning
    [] mode = "TextEditing" -> s.text_input # Null

\* C20: in every reachable state of a client at most one of the interaction
\* modes is active.
OneModeAtATime ==
  \A c \in Clients : Cardinality({mode \in Modes : Active(wb[c], mode)}) <= 1

(***************************************************************************)
(* The end of a gesture.                                                   *)
(***************************************************************************)
\* no gesture is in progress and nothing provisional is left
AtRest(s) ==
  /\ ~s.is_drawing /\ ~s.is_dragging /\ ~s.is_resizing
  /\ ~s.is_box_selecting /\ ~s.is_panning
  /\ s.current_element = Null /\ s.selection_box = Null

\* C21: whatever the state, once a mouse-up or a mouse-leave has been handled
\* no drawing, erasing, dragging, resizing, box selection or panning is
\* active and no provisional element or marquee remains (the two events run
\* the same handlers, so leaving the canvas has the effect of a mouse-up).
PointerUpEndsEveryGesture ==
  AtRest(canvas_mouse_up(wb["A"]).st)

(***************************************************************************)
(* Drawing with the pen.                                                   *)
(***************************************************************************)
\* C22: a pen gesture (pointer-down at p0, moves at p1..pn, pointer-up) leaves
\* the scene as it was until the pointer-up, which pushes one snapshot of
\* that scene and appends one stroke whose points are p0, p1, ..., pn in this
\* order, in the selected colour and width; a gesture without moves commits a
\* stroke of one point.
PenGestureAppendsStroke ==
  /\ [](watch.path # <<>> /\ watch.from_idle /\ ~watch.up
          => /\ wb["A"].elements = watch.elements
             /\ wb["A"].history = watch.history)
  /\ [](watch.path # <<>> /\ watch.from_idle /\ watch.up
          => LET now == wb["A"].elements
                 el == now[Len(now)]
             IN /\ Len(now) = Len(watch.elements) + 1
                /\ SubSeq(now, 1, Len(watch.elements)) = watch.elements
                /\ el.type = "stroke"
                /\ el.points = watch.path
                /\ el.color = wb["A"].color
                /\ el.width = wb["A"].stroke_width
                /\ el.id \notin Ids(watch.elements)
                /\ wb["A"].history = Append(watch.history, watch.elements)
                /\ ymap_get(doc["A"]) = JSON_stringify(now))

\* a stroke through three points has been committed on top of the three
\* elements of the scene
PenGestureAppendsStrokeWitness ==
  /\ watch.up /\ watch.from_idle
  /\ watch.path = <<Pt(0, 0), Pt(20, 20), Pt(40, 40)>>
  /\ Len(wb["A"].elements) = 4
  /\ wb["A"].elements[4].points = watch.path

(***************************************************************************)
(* The view transform.                                                     *)
(***************************************************************************)
\* C23: in every reachable state the view scale is between 0.1 and 5.
ScaleWithinLimits ==
  \A c \in Clients : MIN_SCALE <= wb[c].scale /\ wb[c].scale <= MAX_SCALE

PositiveSize(el) ==
  /\ el.width > 0
  /\ el.type = "text" => el.fontSize > 0

\* C24: every element of a scene that local operations (draw, text commit,
\* text edit, drag, resize) produced from elements with positive sizes has a
\* positive stroke width, and a positive font size if it is a text
SizesStayPositive ==
  \A c \in Clients : \A i \in 1..Len(wb[c].elements) : PositiveSize(wb[c].elements[i])

\* a text being resized to a smaller font size
SizesStayPositiveWitness ==
  /\ wb["A"].is_resizing
  /\ \E i \in 1..Len(wb["A"].elements) :
       /\ wb["A"].elements[i].id = TextC.id
       /\ wb["A"].elements[i].fontSize < NEW_FONT_SIZE

(***************************************************************************)
(* Keys pressed while the text input is open.                              *)
(***************************************************************************)
\* C25: Escape in the open text input (of a new or of an existing text)
\* closes the input and leaves the scene, the undo stack, the redo stack and
\* the replicated map as they were
EscapeOnlyClosesEditor ==
  watch.key = "Escape" =>
    /\ wb["A"].text_input = Null
    /\ wb["A"].elements = watch.pre.elements
    /\ wb["A"].history = watch.pre.history
    /\ wb["A"].redo_stack = watch.pre.redo_stack
    /\ doc["A"] = watch.pre_doc

\* Escape was pressed while an existing text was edited to another value,
\* with snapshots on both stacks
EscapeOnlyClosesEditorWitness ==
  /\ watch.key = "Escape"
  /\ watch.pre.text_input.editing_id = TextC.id
  /\ watch.pre.text_input.value # TextC.text
  /\ watch.pre.history # <<>>
  /\ watch.pre.redo_stack # <<>>

\* C26: committing an empty or whitespace-only text closes the input; when an
\* existing text was edited it removes exactly that element and pushes one
\* snapshot, when a new text was written it changes neither scene nor stack
EmptyTextCommit ==
  watch.key = "Enter" /\ Trim(watch.pre.text_input.value) = <<>> =>
    /\ wb["A"].text_input = Null
    /\ IF watch.pre.text_input.editing_id # NoId
       THEN /\ wb["A"].elements =
                 SelectSeq(watch.pre.elements,
                           LAMBDA el : el.id # watch.pre.text_input.editing_id)
            /\ Len(wb["A"].elements) = Len(watch.pre.elements) - 1
            /\ wb["A"].history = Append(watch.pre.history, watch.pre.elements)
       ELSE /\ wb["A"].elements = watch.pre.elements
            /\ wb["A"].history = watch.pre.history

\* an existing text was emptied to a blank and committed
EmptyTextCommitWitness ==
  /\ watch.key = "Enter"
  /\ watch.pre.text_input.value = <<" ">>
  /\ watch.pre.text_input.editing_id = TextC.id
  /\ Len(watch.pre.elements) = 2

\* C27: while the text input is open, the undo, redo, select-all and delete
\* shortcuts leave the scene, the undo stack, the redo stack and the
\* selection as they were
ShortcutsIgnoredWhileEditing ==
  watch.key \in Shortcuts /\ watch.pre.text_input # Null =>
    /\ wb["A"].elements = watch.pre.elements
    /\ wb["A"].history = watch.pre.history
    /\ wb["A"].redo_stack = watch.pre.redo_stack
    /\ wb["A"].selected_ids = watch.pre.selected_ids

\* Delete was pressed with the input open, an element selected and snapshots
\* on both stacks
ShortcutsIgnoredWhileEditingWitness ==
  /\ watch.key = "delete"
  /\ watch.pre.text_input # Null
  /\ watch.pre.selected_ids # {}
  /\ watch.pre.history # <<>>
  /\ watch.pre.redo_stack # <<>>

(***************************************************************************)
(* Hit test and bounds.                                                    *)
(***************************************************************************)
\* the distance from p to the polyline through points (a single point for a
\* dot) is below tol
PolylineWithin(points, p, tol) ==
  IF Len(points) = 1 THEN point_to_line_within(p, points[1], points[1], tol)
  ELSE \E i \in 1..(Len(points) - 1) :
         point_to_line_within(p, points[i], points[i + 1], tol)

\* el's geometry is within the hit tolerance of p: distance to the polyline
\* for a stroke, a line or an arrow, containment in the box with margin for a
\* rectangle, an ellipse or a text
WithinTolerance(el, p) ==
  IF el.type = "stroke" THEN PolylineWithin(el.points, p, HIT_TOLERANCE)
  ELSE element_hit(el, p)

\* C28: the hit test returns the element of greatest index among those within
\* tolerance of the point, and none exactly when no element is within tolerance
HitTestReturnsTopmost ==
  watch.op = "hit" =>
    LET els == wb["A"].elements
        near == {i \in 1..Len(els) : WithinTolerance(els[i], watch.point)}
    IN IF near = {} THEN watch.found = Null
       ELSE watch.found = els[CHOOSE i \in near : \A j \in near : j <= i]

\* C29: a stroke passes the hit test exactly when the distance from the point
\* to its polyline is below the tolerance
StrokeHitIsPolylineDistance ==
  watch.op = "hit" =>
    \A i \in 1..Len(wb["A"].elements) :
      LET el == wb["A"].elements[i]
      IN el.type = "stroke" =>
           (element_hit(el, watch.point)
              <=> PolylineWithin(el.points, watch.point, HIT_TOLERANCE))

\* C30: the bounds of a translated element are the element's bounds shifted
\* by the delta, with the same width and height
TranslationShiftsBounds ==
  watch.op = "move" =>
    LET b == get_element_bounds(watch.el)
        moved == get_element_bounds(watch.moved)
    IN /\ moved.x = b.x + 10 * watch.delta.x
       /\ moved.y = b.y + 10 * watch.delta.y
       /\ moved.w = b.w
       /\ moved.h = b.h

\* an arrow that points up and to the left was translated
TranslationShiftsBoundsWitness ==
  /\ watch.op = "move"
  /\ watch.el = ArrowR
  /\ watch.delta = Pt(0 - 30, 40)

(***************************************************************************)
(* Box selection and clicks with the select tool.                          *)
(***************************************************************************)
\* the bounds of el and the marquee have a point in common (tenths)
Overlaps(el, box) ==
  LET b == get_element_bounds(el)
  IN /\ b.x <= 10 * Max(box.start.x, box.end.x)
     /\ b.x + b.w >= 10 * Min(box.start.x, box.end.x)
     /\ b.y <= 10 * Max(box.start.y, box.end.y)
     /\ b.y + b.h >= 10 * Min(box.start.y, box.end.y)

\* the step belongs to a box-select gesture begun from rest: its pointer-down,
\* a pointer-move or the pointer-up
BoxSelectStep ==
  \/ watch'.p0 # Null /\ watch'.from_idle /\ wb'["A"].is_box_selecting
       /\ ~wb["A"].is_box_selecting
  \/ wb["A"].is_box_selecting /\ watch.from_idle
       /\ (watch'.p0 = Null \/ watch'.from_idle)

\* C31: a box-select gesture changes neither the scene nor the two stacks, and
\* when it ends the marquee is cleared and the selection is the set of ids of
\* the elements whose bounds overlap or touch the marquee
BoxSelectPicksOverlapping ==
  [][BoxSelectStep =>
       /\ wb'["A"].elements = wb["A"].elements
       /\ wb'["A"].history = wb["A"].history
       /\ wb'["A"].redo_stack = wb["A"].redo_stack
       /\ doc'["A"] = doc["A"]
       /\ (wb["A"].is_box_selecting /\ watch'.p0 = Null =>
             /\ ~wb'["A"].is_box_selecting
             /\ wb'["A"].selection_box = Null
             /\ wb'["A"].selected_ids =
                  {wb["A"].elements[i].id : i \in
                     {j \in 1..Len(wb["A"].elements) :
                        Overlaps(wb["A"].elements[j], wb["A"].selection_box)}})]_vars

\* a marquee from (100,50) to (0,0) was released: it holds the rectangle and
\* the text and touches the stroke's bounds along one edge
BoxSelectPicksOverlappingWitness ==
  /\ watch = NoGesture
  /\ ~wb["A"].is_box_selecting
  /\ wb["A"].selection_box = Null
  /\ wb["A"].selected_ids = {RectA.id, StrokeB.id, TextC.id}

\* the step is a pointer-down of client A with the select tool that hits an
\* element
ClickOnElement ==
  /\ steps' # steps
  /\ watch'.p0 # Null /\ watch'.last = Null
  /\ wb["A"].tool = "select"
  /\ find_element_at(wb["A"].elements, watch'.p0) # Null

\* the pointer-down lands on a resize handle of the selection
ClickOnHandle ==
  /\ wb["A"].selected_ids # {}
  /\ get_resize_handle_at(wb["A"].elements, wb["A"].selected_ids, watch'.p0) # "none"

\* what C34 says of a click on the hit element
ClickSelects ==
  LET s == wb["A"]
      t == wb'["A"]
      el == find_element_at(s.elements, watch'.p0)
  IN IF watch'.shift
     THEN /\ t.selected_ids \ {el.id} = s.selected_ids \ {el.id}
          /\ el.id \in t.selected_ids <=> el.id \notin s.selected_ids
          /\ t.is_dragging = s.is_dragging
          /\ t.history = s.history /\ t.redo_stack = s.redo_stack
          /\ t.elements = s.elements
     ELSE /\ t.is_dragging
          /\ t.selected_ids = IF el.id \in s.selected_ids THEN s.selected_ids
                              ELSE {el.id}

\* C34 as stated: with the select tool, a shift-click on a hit element toggles
\* that element's membership only, starts no drag, pushes no snapshot and
\* leaves the scene; a plain click on a selected element keeps the selection
\* and starts a drag, on an unselected one selects it alone
ClickTogglesOrDrags == [][ClickOnElement => ClickSelects]_vars

\* C34, for the pointer-downs that do not land on a resize handle of the
\* selection
ClickOffHandleTogglesOrDrags ==
  [][ClickOnElement /\ ~ClickOnHandle => ClickSelects]_vars

\* a shift-click on the rectangle took it out of the selection of the
\* rectangle and the stroke
ClickOffHandleTogglesOrDragsWitness ==
  /\ watch.shift /\ watch.p0 = Pt(50, 0) /\ watch.last = Null
  /\ wb["A"].selected_ids = {StrokeB.id}
  /\ ~wb["A"].is_dragging
  /\ wb["A"].history = <<>>

(***************************************************************************)
(* Remote scenes arriving at a client.                                     *)
(***************************************************************************)
\* C32: is_syncing_ref is false after every step, so that whenever an item
\* written by another client reaches a synced client the flag is false and
\* the observer replaces the scene by the blob it reads
RemoteNotificationNeverSkipped ==
  [][\A c \in Clients :
       /\ ~wb'[c].is_syncing
       /\ (synced[c] /\ \E it \in doc'[c] \ doc[c] : it.client # c) =>
            /\ ~wb[c].is_syncing
            /\ wb'[c].elements = JSON_parse(ymap_get(doc'[c]))]_vars

\* client A wrote to the map, and then an item that client B wrote after
\* having received A's replaced A's scene
RemoteNotificationNeverSkippedWitness ==
  \E a \in ItemsOf("A"), b \in ItemsOf("B") :
    /\ b.origin = ItemId(a)
    /\ {a, b} \subseteq doc["A"]
    /\ ItemId(b) = LastItem(NoItem, doc["A"])
    /\ wb["A"].elements = JSON_parse(b.val)

\* C36: when an item written by another client reaches a synced client, only
\* the client's scene changes: stacks, selection, view, tool and the state of
\* the gesture or text edit in progress are as before
RemoteReplacementChangesOnlyScene ==
  [][\A c \in Clients :
       (synced[c] /\ \E it \in doc'[c] \ doc[c] : it.client # c) =>
         wb'[c] = [wb[c] EXCEPT !.elements = wb'[c].elements]]_vars

\* client B's write has replaced the scene A had loaded while A is drawing
RemoteReplacementChangesOnlySceneWitness ==
  /\ wb["A"].is_drawing /\ wb["A"].current_element # Null
  /\ \E b \in ItemsOf("B") :
       /\ ItemId(b) = LastItem(NoItem, doc["A"])
       /\ wb["A"].elements = JSON_parse(b.val)
       /\ \E i \in doc["A"] : i.client = "init" /\ i.val # b.val

\* C37: when a scene written by another client arrived during a draw gesture
\* (pen or shape), after pointer-up the client's scene is the scene last
\* received followed by the drawn element, and so is the blob under the key
DrawCommitKeepsRemoteScene ==
  (/\ watch.op = "up" /\ watch.from_idle /\ watch.remote.seen
   /\ watch.pre.tool \in DrawTools
   /\ watch.pre.is_drawing /\ watch.pre.current_element # Null) =>
    /\ wb["A"].elements = Append(watch.remote.scene, watch.pre.current_element)
    /\ ymap_get(doc["A"]) = JSON_stringify(wb["A"].elements)

\* a pen stroke of two points was committed after the scene of the rectangle
\* and the line had arrived in the middle of the gesture
DrawCommitKeepsRemoteSceneWitness ==
  /\ watch.op = "up" /\ watch.from_idle
  /\ watch.remote = [seen |-> TRUE, scene |-> <<RectA, LineL>>]
  /\ watch.pre.current_element # Null
  /\ watch.pre.current_element.type = "stroke"
  /\ Len(watch.pre.current_element.points) = 2
  /\ Len(wb["A"].elements) = 3

\* the element of id in els, or Null
ElementOf(els, id) ==
  LET idx == {i \in 1..Len(els) : els[i].id = id}
  IN IF idx = {} THEN Null ELSE els[CHOOSE i \in idx : TRUE]

\* C38: when a scene written by another client arrived during a drag, after
\* the next pointer-move every selected element that is in the scene and whose
\* geometry in the received scene is its geometry at drag start is at that
\* geometry translated by (pointer - pointer-down point)
DragAfterRemoteFollowsPointer ==
  (/\ watch.op = "move" /\ watch.from_idle /\ watch.remote.seen
   /\ watch.pre.is_dragging /\ watch.pre.tool = "select") =>
    \A i \in 1..Len(wb["A"].elements) :
      LET el == wb["A"].elements[i]
          at_start == ElementOf(watch.start, el.id)
      IN (/\ el.id \in wb["A"].selected_ids
          /\ at_start # Null
          /\ ElementOf(watch.remote.scene, el.id) = at_start) =>
           el = move_element(at_start, Pt(watch.last.x - watch.p0.x,
                                          watch.last.y - watch.p0.y))

\* C39: committing a non-empty edit of an existing text adds no element; if the
\* text was removed by a scene received meanwhile, the commit leaves the
\* sequence of elements as it is, pushes one snapshot and writes the scene
EditCommitAddsNoElement ==
  (/\ watch.op = "enter"
   /\ watch.pre.text_input # Null
   /\ watch.pre.text_input.editing_id # NoId
   /\ Trim(watch.pre.text_input.value) # <<>>) =>
    /\ Len(wb["A"].elements) = Len(watch.pre.elements)
    /\ wb["A"].text_input = Null
    /\ ElementOf(watch.pre.elements, watch.pre.text_input.editing_id) = Null =>
         /\ wb["A"].elements = watch.pre.elements
         /\ wb["A"].history = Append(watch.pre.history, watch.pre.elements)
         /\ ItemId(LastItem(NoItem, doc["A"])).client = "A"
         /\ ymap_get(doc["A"]) = JSON_stringify(watch.pre.elements)

\* the edit of the text was committed after the scene of the rectangle and
\* the line, without the text, had arrived
EditCommitAddsNoElementWitness ==
  /\ watch.op = "enter"
  /\ watch.pre.text_input # Null
  /\ watch.pre.text_input.editing_id = TextC.id
  /\ watch.remote = [seen |-> TRUE, scene |-> <<RectA, LineL>>]
  /\ wb["A"].elements = <<RectA, LineL>>
  /\ Len(wb["A"].history) = 1

(***************************************************************************)
(* The text input's blur.                                                  *)
(***************************************************************************)
\* C33: a blur commits the text only if the timer started by the opening of
\* the input that is now open has fired (the timers have the same delay and
\* fire in the order they were started, so that timer is the last pending
\* one): while a timer is pending a blur leaves the input open
BlurWaitsForOwnTimer ==
  \A c \in Clients :
    wb[c].text_input # Null /\ wb[c].text_timers > 0 =>
      text_input_blur(wb[c], next_id).st.text_input # Null

(***************************************************************************)
(* Undo and redo with nothing to undo or redo.                             *)
(***************************************************************************)
\* C35: undo with an empty undo stack and redo with an empty redo stack change
\* neither the scene nor a stack, and write nothing to the map
EmptyUndoRedoIsNoOp ==
  (\/ watch.key = "undo" /\ watch.pre.history = <<>>
   \/ watch.key = "redo" /\ watch.pre.redo_stack = <<>>) =>
    /\ wb["A"].elements = watch.pre.elements
    /\ wb["A"].history = watch.pre.history
    /\ wb["A"].redo_stack = watch.pre.redo_stack
    /\ doc["A"] = watch.pre_doc

\* undo was pressed with the input closed after everything had been undone
EmptyUndoRedoIsNoOpWitness ==
  /\ watch.key = "undo"
  /\ watch.pre.text_input = Null
  /\ watch.pre.history = <<>>
  /\ watch.pre.redo_stack # <<>>

====
